---- MODULE Spec2Model ----
(***************************************************************************)
(* Budget-tracker backend: the ledger engine (routes/transactions.ts), the *)
(* source routes (routes/sources.ts) and the balance recalculator          *)
(* (utils/recalculateBalance.ts) over the Prisma store of schema.prisma.   *)
(*                                                                         *)
(* Amounts are integers (rupiah); description, date and accountNumber are  *)
(* carried by the code but decide nothing here and are left out of rows.   *)
(***************************************************************************)
EXTENDS Integers, Sequences, FiniteSets, TLC

\* ---------------------------------------------------------------- bounds

MaxTx == 2            \* transaction rows ever inserted in one behaviour
MaxSources == 3       \* source rows ever inserted in one behaviour
MaxBalance == 3       \* a step is taken only while every |balance| <= MaxBalance
MaxTypes == 2         \* transaction types a user ever adds in one behaviour

\* ------------------------------------------------------- values and inputs

NULL == "null"
UNDEF == "undefined"

\* JavaScript's !x for the id strings of a request body.
Falsy(x) == x \in {NULL, UNDEF, ""}

Users == {"u1", "u2"}
\* the users that create rows; the others only address rows that are not theirs
Creators == {"u1"}

\* uuid() of Source.id / Transaction.id: the k-th row inserted gets the k-th id.
SourceIdOf(k) == "s" \o ToString(k)
SourceIdPool == {SourceIdOf(k) : k \in 1..MaxSources}
TxIds == 1..MaxTx

SourceNames == {"Dompet", "Bank"}

\* String.prototype.toLowerCase (and Prisma's mode: 'insensitive') on the names
\* that occur.
Lower(name) ==
  IF name \in {"Dompet", "DOMPET", "dompet"} THEN "dompet"
  ELSE IF name \in {"Bank", "BANK", "bank"} THEN "bank"
  ELSE IF name = "Pemasukan" THEN "pemasukan"
  ELSE IF name = "Pengeluaran" THEN "pengeluaran"
  ELSE IF name = "Transfer" THEN "transfer"
  ELSE IF name = "Tabungan" THEN "tabungan"
  ELSE IF name \in {"Hobi", "HOBI"} THEN "hobi"
  ELSE IF name = "Amal" THEN "amal"
  ELSE name

\* The stable type ids the transaction routes dispatch on.
IncomeType == "income-type"
ExpenseType == "expense-type"
TransferType == "transfer-type"
SavingType == "saving-type"

IsTransferKind(typeId) == typeId = TransferType \/ typeId = SavingType

\* prisma/seed/default-values.ts: the seeded default types, and those of the
\* seeded default categories that a body or recalculateBalance names.
SeedTypes ==
  [id \in {IncomeType, ExpenseType, TransferType} |->
     [name |-> IF id = IncomeType THEN "Pemasukan"
               ELSE IF id = ExpenseType THEN "Pengeluaran" ELSE "Transfer",
      userId |-> NULL]]

SeedCategories ==
  [id \in {"makan-cat", "gaji-cat", "in-trans-cat", "out-trans-cat"} |->
     [name |-> IF id = "makan-cat" THEN "Makan"
               ELSE IF id = "gaji-cat" THEN "Gaji"
               ELSE IF id = "in-trans-cat" THEN "Masuk" ELSE "Keluar",
      transactionTypeId |-> IF id = "makan-cat" THEN ExpenseType
                            ELSE IF id = "gaji-cat" THEN IncomeType ELSE TransferType,
      userId |-> NULL]]

\* The bodies of POST/PUT /transactions that the model enumerates: income and
\* expense bodies, transfer bodies, and one body for each remaining way a body
\* can be shaped (a type that is not stored, no source, a target on an income,
\* a category on a transfer).
Amounts == {1, 2}
Body(typeId, sourceId, targetSourceId, categoryId, amount) ==
  [description |-> "makan siang", typeId |-> typeId, sourceId |-> sourceId,
   targetSourceId |-> targetSourceId, categoryId |-> categoryId, amount |-> amount]

TransactionBody ==
  {Body(t, s, UNDEF, "makan-cat", a) : t \in {IncomeType, ExpenseType},
                                       s \in SourceIdPool, a \in Amounts}
  \cup {Body(TransferType, s, g, UNDEF, a) : s \in SourceIdPool,
                             g \in SourceIdPool \cup {NULL, UNDEF}, a \in Amounts}
  \cup {Body(SavingType, "s1", "s2", UNDEF, 1),
        Body(IncomeType, UNDEF, UNDEF, "makan-cat", 1),
        Body(ExpenseType, "s1", UNDEF, UNDEF, 1),
        Body(IncomeType, "s1", "s2", "makan-cat", 1),
        Body(TransferType, "s1", "s2", "makan-cat", 1)}

VARIABLES
  sources,        \* table Source: id -> [name, userId, initialAmount, balance]
  transactions,   \* table Transaction: id -> [userId, typeId, sourceId, targetSourceId, categoryId, amount]
  types,          \* table TransactionType: id -> [name, userId]
  categories,     \* table Category: id -> [name, transactionTypeId, userId]
  nextSource,     \* number of source rows inserted so far, plus one
  nextTx,         \* number of transaction rows inserted so far, plus one
  res,            \* the last request that wrote to the store, and its answer
  inflight,       \* per client: the PUT or DELETE that has read `existing` and not yet run its $transaction
  committed       \* the requests whose $transaction committed, in commit order

vars == <<sources, transactions, types, categories, nextSource, nextTx, res,
          inflight, committed>>


\* ------------------------------------------------------------ the store

\* The rows a handler reads and writes through prisma / tx.
Store ==
  [sources |-> sources, transactions |-> transactions,
   nextSource |-> nextSource, nextTx |-> nextTx]

\* Foreign keys of model Transaction (schema.prisma): every non-null reference
\* must name an existing row, else the statement fails (P2003).
ForeignKeysOk(db, row) ==
  /\ row.typeId \in DOMAIN types
  /\ row.sourceId = NULL \/ row.sourceId \in DOMAIN db.sources
  /\ row.targetSourceId = NULL \/ row.targetSourceId \in DOMAIN db.sources
  /\ row.categoryId = NULL \/ row.categoryId \in DOMAIN categories

\* Prisma leaves a field whose value is undefined as it is.
MergeData(old, data) ==
  [old EXCEPT !.amount = data.amount,
              !.typeId = data.typeId,
              !.sourceId = IF data.sourceId = UNDEF THEN @ ELSE data.sourceId,
              !.targetSourceId = IF data.targetSourceId = UNDEF THEN @ ELSE data.targetSourceId,
              !.categoryId = IF data.categoryId = UNDEF THEN @ ELSE data.categoryId]

\* The statements of a handler, in the order the code awaits them.
StCreate(row) == [k |-> "create", row |-> row]
StUpdate(id, data) == [k |-> "update", id |-> id, data |-> data]
StDelete(id) == [k |-> "delete", id |-> id]
StIncrement(id, by) == [k |-> "increment", id |-> id, by |-> by]
\* findUnique of each id, then `throw` or `return {error}` when one is missing
StFindSources(ids, code, status, how) ==
  [k |-> "find", ids |-> ids, code |-> code, status |-> status, how |-> how]
\* `if (source.balance < amount) return {error}` of the name-based revision
StFunds(id, amount, code, status, how) ==
  [k |-> "funds", id |-> id, amount |-> amount, code |-> code, status |-> status, how |-> how]
StThrow(code, status) == [k |-> "throw", code |-> code, status |-> status]
\* `return {error: true, status, code}` from the callback
StReturn(code, status) == [k |-> "return", code |-> code, status |-> status]

Continue(db) == [out |-> "next", code |-> "OK", status |-> 200, app |-> FALSE, db |-> db]
\* a PrismaClientKnownRequestError or a storage failure: not an AppError
StorageError(db, code) == [out |-> "throw", code |-> code, status |-> 500, app |-> FALSE, db |-> db]
Stop(db, how, code, status) == [out |-> how, code |-> code, status |-> status, app |-> TRUE, db |-> db]

\* One statement against the store.
Execute(db, st) ==
  CASE st.k = "create" ->
         IF ForeignKeysOk(db, st.row)
         THEN Continue([db EXCEPT !.transactions = [i \in DOMAIN @ \cup {db.nextTx} |->
                                       IF i = db.nextTx THEN st.row ELSE @[i]],
                                  !.nextTx = @ + 1])
         ELSE StorageError(db, "P2003")
    [] st.k = "update" ->
         IF st.id \notin DOMAIN db.transactions THEN StorageError(db, "P2025")
         ELSE LET row == MergeData(db.transactions[st.id], st.data) IN
              IF ForeignKeysOk(db, row)
              THEN Continue([db EXCEPT !.transactions[st.id] = row])
              ELSE StorageError(db, "P2003")
    [] st.k = "delete" ->
         IF st.id \notin DOMAIN db.transactions THEN StorageError(db, "P2025")
         ELSE Continue([db EXCEPT !.transactions = [i \in DOMAIN @ \ {st.id} |-> @[i]]])
    [] st.k = "increment" ->
         IF st.id \notin DOMAIN db.sources THEN StorageError(db, "P2025")
         ELSE Continue([db EXCEPT !.sources[st.id].balance = @ + st.by])
    [] st.k = "find" ->
         IF st.ids \subseteq DOMAIN db.sources THEN Continue(db)
         ELSE Stop(db, st.how, st.code, st.status)
    [] st.k = "funds" ->
         IF st.id \in DOMAIN db.sources /\ db.sources[st.id].balance >= st.amount
         THEN Continue(db)
         ELSE Stop(db, st.how, st.code, st.status)
    [] st.k = "return" -> Stop(db, "return", st.code, st.status)
    [] OTHER -> Stop(db, "throw", st.code, st.status)

\* The statements from the i-th on; the storage engine fails at statement failAt
\* (0: it does not fail).
RECURSIVE Run(_, _, _, _)
Run(db, stmts, i, failAt) ==
  IF i > Len(stmts) THEN [Continue(db) EXCEPT !.out = "done"]
  ELSE IF i = failAt THEN StorageError(db, "STORAGE_FAILURE")
  ELSE LET r == Execute(db, stmts[i]) IN
       IF r.out = "next" THEN Run(r.db, stmts, i + 1, failAt) ELSE r

\* Statements awaited on `prisma` directly, outside any transaction: what ran
\* before a throw stays.
Unwrapped(db, stmts, failAt) == Run(db, stmts, 1, failAt)

\* prisma.$transaction(async (tx) => ...): a callback that throws rolls every
\* write back; one that returns (a value or an {error} object) commits.
InTransaction(db, stmts, failAt) ==
  LET r == Run(db, stmts, 1, failAt) IN
  IF r.out = "throw" THEN [r EXCEPT !.db = db] ELSE r



\* ------------------------------------------------ routes/transactions.ts

\* The checks of POST and PUT without the one on the description.
FieldErrorsNoDescription(b) ==
  (IF "amount" \notin DOMAIN b THEN <<"amount">> ELSE <<>>)
  \o (IF Falsy(b.typeId) THEN <<"typeId">> ELSE <<>>)
  \o (IF Falsy(b.sourceId) THEN <<"sourceId">> ELSE <<>>)
  \o (IF b.typeId \notin {TransferType, SavingType} /\ Falsy(b.categoryId)
      THEN <<"categoryId">> ELSE <<>>)
  \o (IF b.typeId \in {TransferType, SavingType} /\ b.sourceId = b.targetSourceId
      THEN <<"targetSourceId">> ELSE <<>>)

\* The checks of POST and PUT without the one on a transfer to its own source.
FieldErrorsNoSelfCheck(b) ==
  (IF Falsy(b.description) THEN <<"description">> ELSE <<>>)
  \o (IF "amount" \notin DOMAIN b THEN <<"amount">> ELSE <<>>)
  \o (IF Falsy(b.typeId) THEN <<"typeId">> ELSE <<>>)
  \o (IF Falsy(b.sourceId) THEN <<"sourceId">> ELSE <<>>)
  \o (IF b.typeId \notin {TransferType, SavingType} /\ Falsy(b.categoryId)
      THEN <<"categoryId">> ELSE <<>>)

\* `amount === undefined || amount === null || isNaN(amount)`: a body whose
\* amount is not a number is a record with no amount field.
AmountIsNumber(b) == "amount" \in DOMAIN b

\* `errors` of POST and PUT /transactions: the fields pushed, in order.
FieldErrors(b) ==
  (IF Falsy(b.description) THEN <<"description">> ELSE <<>>)
  \o (IF ~AmountIsNumber(b) THEN <<"amount">> ELSE <<>>)
  \o (IF Falsy(b.typeId) THEN <<"typeId">> ELSE <<>>)
  \o (IF Falsy(b.sourceId) THEN <<"sourceId">> ELSE <<>>)
  \o (IF ~IsTransferKind(b.typeId) /\ Falsy(b.categoryId) THEN <<"categoryId">> ELSE <<>>)
  \o (IF IsTransferKind(b.typeId) /\ b.sourceId = b.targetSourceId
      THEN <<"targetSourceId">> ELSE <<>>)

\* A transfer written as a pair of rows, the shape recalculateBalance sums: a
\* 'Keluar' row on the source and a 'Masuk' row on the target.
TransferAsPair(userId, b) ==
  IF Falsy(b.targetSourceId)
  THEN <<StThrow("TARGET_SOURCE_ID_REQUIRED", 400)>>
  ELSE <<StFindSources({b.sourceId, b.targetSourceId}, "SOURCE_NOT_FOUND", 404, "throw"),
         StCreate([userId |-> userId, typeId |-> b.typeId, sourceId |-> b.sourceId,
                   targetSourceId |-> NULL, categoryId |-> "out-trans-cat",
                   amount |-> b.amount]),
         StCreate([userId |-> userId, typeId |-> b.typeId, sourceId |-> b.targetSourceId,
                   targetSourceId |-> NULL, categoryId |-> "in-trans-cat",
                   amount |-> b.amount]),
         StIncrement(b.sourceId, 0 - b.amount),
         StIncrement(b.targetSourceId, b.amount)>>

\* POST /transactions, the transfer branch of the callback: one row carrying
\* both source ids, then the debit and the credit.
TransferStatements(userId, b) ==
  IF Falsy(b.targetSourceId)
  THEN <<StThrow("TARGET_SOURCE_ID_REQUIRED", 400)>>
  ELSE <<StFindSources({b.sourceId, b.targetSourceId}, "SOURCE_NOT_FOUND", 404, "throw"),
         StCreate([userId |-> userId, typeId |-> b.typeId, sourceId |-> b.sourceId,
                   targetSourceId |-> b.targetSourceId, categoryId |-> NULL,
                   amount |-> b.amount]),
         StIncrement(b.sourceId, 0 - b.amount),
         StIncrement(b.targetSourceId, b.amount)>>

\* An income / expense branch that debits for every type but an income.
IncomeElseDebit(userId, b) ==
  <<StCreate([userId |-> userId, typeId |-> b.typeId, sourceId |-> b.sourceId,
              targetSourceId |-> NULL, categoryId |-> b.categoryId,
              amount |-> b.amount]),
    StIncrement(b.sourceId, IF b.typeId = "income-type" THEN b.amount ELSE 0 - b.amount)>>

\* The income / expense branch with the funds check that the code carries as a
\* comment switched on.
IncomeExpenseChecked(userId, b) ==
  <<StCreate([userId |-> userId, typeId |-> b.typeId, sourceId |-> b.sourceId,
              targetSourceId |-> NULL, categoryId |-> b.categoryId,
              amount |-> b.amount])>>
  \o (IF b.typeId = "income-type"
      THEN <<StIncrement(b.sourceId, b.amount)>>
      ELSE IF b.typeId = "expense-type"
      THEN <<StFindSources({b.sourceId}, "SOURCE_NOT_FOUND", 404, "throw"),
             StFunds(b.sourceId, b.amount, "INSUFFICIENT_FUNDS", 400, "throw"),
             StIncrement(b.sourceId, 0 - b.amount)>>
      ELSE <<>>)

\* The income / expense branch with the direction of an expense lost.
IncomeExpenseCredited(userId, b) ==
  <<StCreate([userId |-> userId, typeId |-> b.typeId, sourceId |-> b.sourceId,
              targetSourceId |-> NULL, categoryId |-> b.categoryId,
              amount |-> b.amount]),
    StIncrement(b.sourceId, b.amount)>>

\* POST /transactions, the income / expense (and custom type) branch.
IncomeExpenseStatements(userId, b) ==
  <<StCreate([userId |-> userId, typeId |-> b.typeId, sourceId |-> b.sourceId,
              targetSourceId |-> NULL, categoryId |-> b.categoryId,
              amount |-> b.amount])>>
  \o (IF b.typeId = IncomeType
      THEN <<StIncrement(b.sourceId, b.amount)>>
      ELSE IF b.typeId = ExpenseType
      THEN <<StFindSources({b.sourceId}, "SOURCE_NOT_FOUND", 404, "throw"),
             StIncrement(b.sourceId, 0 - b.amount)>>
      ELSE <<>>)

\* POST /transactions: the callback handed to prisma.$transaction.
PostStatements(userId, b) ==
  IF IsTransferKind(b.typeId) THEN TransferStatements(userId, b)
  ELSE IncomeExpenseStatements(userId, b)

\* What a handler answers and leaves in the store.
Answer(status, code, db) == [status |-> status, code |-> code, db |-> db]

\* POST /transactions, whole handler. findUnique({ where: { id: typeId } }) of
\* an undefined or null id is refused by the client inside the try: answered
\* as INTERNAL_ERROR.
PostOutcome(db, userId, b, failAt) ==
  IF b.typeId \in {NULL, UNDEF} THEN Answer(500, "INTERNAL_ERROR", db)
  ELSE IF b.typeId \notin DOMAIN types THEN Answer(400, "INVALID_TYPE", db)
  ELSE IF FieldErrors(b) # <<>> THEN Answer(400, "VALIDATION_ERROR", db)
  ELSE LET r == InTransaction(db, PostStatements(userId, b), failAt) IN
       IF r.out = "throw"
       THEN IF r.app THEN Answer(r.status, r.code, r.db)
            ELSE Answer(500, "INTERNAL_ERROR", r.db)
       ELSE Answer(201, "OK", r.db)

\* PUT /transactions/:id step 1: revert the balance effect of `existing`.
RevertStatements(existing) ==
  IF existing.typeId = IncomeType
  THEN <<StIncrement(existing.sourceId, 0 - existing.amount)>>
  ELSE IF existing.typeId = ExpenseType
  THEN <<StIncrement(existing.sourceId, existing.amount)>>
  ELSE IF IsTransferKind(existing.typeId)
  THEN <<StIncrement(existing.sourceId, existing.amount)>>
       \o (IF ~Falsy(existing.targetSourceId)
           THEN <<StIncrement(existing.targetSourceId, 0 - existing.amount)>> ELSE <<>>)
  ELSE <<>>

\* PUT step 2: the source of an expense or transfer must exist (thrown as a
\* plain Error, so it is answered as INTERNAL_ERROR).
CheckStatements(b) ==
  IF (b.typeId = ExpenseType \/ IsTransferKind(b.typeId)) /\ ~Falsy(b.sourceId)
  THEN <<StFindSources({b.sourceId}, "SOURCE_NOT_FOUND", 500, "throw")>>
  ELSE <<>>

\* A row update that passes targetSourceId and categoryId on as they came.
UpdateDataAsGiven(b) ==
  [amount |-> b.amount, typeId |-> b.typeId, sourceId |-> b.sourceId,
   targetSourceId |-> b.targetSourceId, categoryId |-> b.categoryId]

\* PUT step 3: the row update, with the field that no longer applies nulled.
UpdateData(b) ==
  [amount |-> b.amount, typeId |-> b.typeId, sourceId |-> b.sourceId,
   targetSourceId |-> IF IsTransferKind(b.typeId) THEN b.targetSourceId ELSE NULL,
   categoryId |-> IF b.typeId = IncomeType \/ b.typeId = ExpenseType
                  THEN b.categoryId ELSE NULL]

\* PUT step 4: apply the balance effect of the new values.
ApplyStatements(b) ==
  IF b.typeId = IncomeType
  THEN <<StIncrement(b.sourceId, b.amount)>>
  ELSE IF b.typeId = ExpenseType
  THEN <<StIncrement(b.sourceId, 0 - b.amount)>>
  ELSE IF IsTransferKind(b.typeId)
  THEN <<StIncrement(b.sourceId, 0 - b.amount)>>
       \o (IF ~Falsy(b.targetSourceId)
           THEN <<StIncrement(b.targetSourceId, b.amount)>> ELSE <<>>)
  ELSE <<>>

\* An update that takes back the amount of the new input, not the stored one.
PutStatementsFromInput(existing, id, b) ==
  RevertStatements([existing EXCEPT !.amount = b.amount]) \o CheckStatements(b)
  \o <<StUpdate(id, UpdateData(b))>> \o ApplyStatements(b)

\* An update without step 1: the effect of the stored row is not taken back.
PutStatementsNoRevert(existing, id, b) ==
  CheckStatements(b) \o <<StUpdate(id, UpdateData(b))>> \o ApplyStatements(b)

\* The callback handed to prisma.$transaction by PUT /transactions/:id.
PutStatements(existing, id, b) ==
  RevertStatements(existing) \o CheckStatements(b)
  \o <<StUpdate(id, UpdateData(b))>> \o ApplyStatements(b)

\* PUT /transactions/:id from the type lookup on, given the `existing` row the
\* handler read before. The type lookup stands outside the try: with an
\* undefined or null id it rejects the handler, nothing is written and express
\* answers 500 or not at all.
PutCommit(db, existing, id, b, failAt) ==
  IF b.typeId \in {NULL, UNDEF} THEN Answer(500, "UNHANDLED_REJECTION", db)
  ELSE IF b.typeId \notin DOMAIN types THEN Answer(400, "INVALID_TYPE", db)
  ELSE IF FieldErrors(b) # <<>> THEN Answer(400, "VALIDATION_ERROR", db)
  ELSE LET r == InTransaction(db, PutStatements(existing, id, b), failAt) IN
       IF r.out = "throw" THEN Answer(500, "INTERNAL_ERROR", r.db)
       ELSE Answer(200, "OK", r.db)

\* A lookup by id alone, whoever the row belongs to.
OwnedByAnyone(db, id, userId) == id \in DOMAIN db.transactions

\* `!existing || existing.userId !== userId`
Owned(db, id, userId) ==
  id \in DOMAIN db.transactions /\ db.transactions[id].userId = userId

\* PUT /transactions/:id, whole handler.
PutOutcome(db, userId, id, b, failAt) ==
  IF ~Owned(db, id, userId) THEN Answer(404, "NOT_FOUND", db)
  ELSE PutCommit(db, db.transactions[id], id, b, failAt)

\* A delete that gives the amount back to the source and leaves the target.
DeleteKeepingTarget(existing, id) ==
  (IF existing.typeId = IncomeType /\ ~Falsy(existing.sourceId)
   THEN <<StIncrement(existing.sourceId, 0 - existing.amount)>>
   ELSE IF (existing.typeId = ExpenseType \/ IsTransferKind(existing.typeId))
           /\ ~Falsy(existing.sourceId)
   THEN <<StIncrement(existing.sourceId, existing.amount)>>
   ELSE <<>>)
  \o <<StDelete(id)>>

\* A DELETE whose delete statement carries no `where: { id }`: it removes
\* every row.
DeleteStatementsNoWhere(existing, id) ==
  RevertStatements(existing) \o [i \in 1..MaxTx |-> StDelete(i)]

\* DELETE /transactions/:id: the callback handed to prisma.$transaction.
DeleteStatements(existing, id) ==
  (IF existing.typeId = IncomeType /\ ~Falsy(existing.sourceId)
   THEN <<StIncrement(existing.sourceId, 0 - existing.amount)>>
   ELSE IF existing.typeId = ExpenseType /\ ~Falsy(existing.sourceId)
   THEN <<StIncrement(existing.sourceId, existing.amount)>>
   ELSE IF IsTransferKind(existing.typeId) /\ ~Falsy(existing.sourceId)
   THEN <<StIncrement(existing.sourceId, existing.amount)>>
        \o (IF ~Falsy(existing.targetSourceId)
            THEN <<StIncrement(existing.targetSourceId, 0 - existing.amount)>> ELSE <<>>)
   ELSE <<>>)
  \o <<StDelete(id)>>

DeleteCommit(db, existing, id, failAt) ==
  LET r == InTransaction(db, DeleteStatements(existing, id), failAt) IN
  IF r.out = "throw" THEN Answer(500, "INTERNAL_ERROR", r.db)
  ELSE Answer(200, "OK", r.db)

\* DELETE /transactions/:id, whole handler.
DeleteOutcome(db, userId, id, failAt) ==
  IF ~Owned(db, id, userId) THEN Answer(404, "NOT_FOUND", db)
  ELSE DeleteCommit(db, db.transactions[id], id, failAt)


\* ------------------- routes/transactions.ts, the revision that reads names

\* type.name.toLowerCase() of a stored type, undefined when there is none.
LowerTypeName(typeId) ==
  IF typeId \in DOMAIN types THEN Lower(types[typeId].name) ELSE UNDEF

IsTransferName(typeName) == typeName = "transfer" \/ typeName = "tabungan"

FieldErrorsByName(b) ==
  (IF Falsy(b.typeId) THEN <<"typeId">> ELSE <<>>)
  \o (IF Falsy(b.sourceId) THEN <<"sourceId">> ELSE <<>>)
  \o (IF ~IsTransferName(LowerTypeName(b.typeId)) /\ Falsy(b.categoryId)
      THEN <<"categoryId">> ELSE <<>>)
  \o (IF IsTransferName(LowerTypeName(b.typeId)) /\ b.sourceId = b.targetSourceId
      THEN <<"targetSourceId">> ELSE <<>>)

\* POST /transactions: the callback, which reports by `return {error}`.
PostByNameStatements(userId, b) ==
  LET typeName == LowerTypeName(b.typeId) IN
  IF IsTransferName(typeName)
  THEN IF Falsy(b.targetSourceId)
       THEN <<StReturn("TARGET_SOURCE_ID_REQUIRED", 400)>>
       ELSE <<StFindSources({b.sourceId, b.targetSourceId}, "SOURCE_NOT_FOUND", 404, "return"),
              StFunds(b.sourceId, b.amount, "INSUFFICIENT_FUNDS", 400, "return"),
              StCreate([userId |-> userId, typeId |-> b.typeId, sourceId |-> b.sourceId,
                        targetSourceId |-> b.targetSourceId, categoryId |-> NULL,
                        amount |-> b.amount]),
              StIncrement(b.sourceId, 0 - b.amount),
              StIncrement(b.targetSourceId, b.amount)>>
  ELSE <<StCreate([userId |-> userId, typeId |-> b.typeId, sourceId |-> b.sourceId,
                   targetSourceId |-> NULL, categoryId |-> b.categoryId,
                   amount |-> b.amount])>>
       \o (IF typeName = "pemasukan"
           THEN <<StIncrement(b.sourceId, b.amount)>>
           ELSE IF typeName = "pengeluaran"
           THEN <<StFindSources({b.sourceId}, "SOURCE_NOT_FOUND", 404, "return"),
                  StFunds(b.sourceId, b.amount, "INSUFFICIENT_FUNDS", 400, "return"),
                  StIncrement(b.sourceId, 0 - b.amount)>>
           ELSE <<>>)

\* What the handler answers for the callback's result r: a callback that threw
\* is answered 500, one that returned {error} with that error's status.
AnswerByName(r, ok) ==
  IF r.out = "throw" THEN Answer(500, "INTERNAL_ERROR", r.db)
  ELSE IF r.out = "return" THEN Answer(r.status, r.code, r.db)
  ELSE Answer(ok, "OK", r.db)

\* POST /transactions, whole handler.
PostByNameOutcome(db, userId, b, failAt) ==
  IF b.typeId \notin DOMAIN types THEN Answer(400, "INVALID_TYPE", db)
  ELSE IF FieldErrorsByName(b) # <<>> THEN Answer(400, "VALIDATION_ERROR", db)
  ELSE AnswerByName(InTransaction(db, PostByNameStatements(userId, b), failAt), 201)

\* PUT /transactions/:id: the callback.
PutByNameStatements(existing, id, b) ==
  LET oldTypeName == LowerTypeName(existing.typeId)
      typeName == LowerTypeName(b.typeId)
  IN (IF oldTypeName = "pemasukan"
      THEN <<StIncrement(existing.sourceId, 0 - existing.amount)>>
      ELSE IF oldTypeName = "pengeluaran"
      THEN <<StIncrement(existing.sourceId, existing.amount)>>
      ELSE IF IsTransferName(oldTypeName)
      THEN <<StIncrement(existing.sourceId, existing.amount)>>
           \o (IF ~Falsy(existing.targetSourceId)
               THEN <<StIncrement(existing.targetSourceId, 0 - existing.amount)>>
               ELSE <<>>)
      ELSE <<>>)
     \o (IF (typeName = "pengeluaran" \/ IsTransferName(typeName)) /\ ~Falsy(b.sourceId)
         THEN <<StFunds(b.sourceId, b.amount, "INSUFFICIENT_FUNDS", 400, "return")>>
         ELSE <<>>)
     \o <<StUpdate(id, [amount |-> b.amount, typeId |-> b.typeId, sourceId |-> b.sourceId,
                        targetSourceId |-> IF IsTransferName(typeName)
                                           THEN b.targetSourceId ELSE NULL,
                        categoryId |-> IF typeName \in {"pemasukan", "pengeluaran"}
                                       THEN b.categoryId ELSE NULL])>>
     \o (IF typeName = "pemasukan"
         THEN <<StIncrement(b.sourceId, b.amount)>>
         ELSE IF typeName = "pengeluaran"
         THEN <<StIncrement(b.sourceId, 0 - b.amount)>>
         ELSE IF IsTransferName(typeName)
         THEN <<StIncrement(b.sourceId, 0 - b.amount)>>
              \o (IF ~Falsy(b.targetSourceId)
                  THEN <<StIncrement(b.targetSourceId, b.amount)>> ELSE <<>>)
         ELSE <<>>)

\* PUT /transactions/:id, whole handler.
PutByNameOutcome(db, userId, id, b, failAt) ==
  IF ~Owned(db, id, userId) THEN Answer(404, "NOT_FOUND", db)
  ELSE IF b.typeId \notin DOMAIN types THEN Answer(400, "INVALID_TYPE", db)
  ELSE IF FieldErrorsByName(b) # <<>> THEN Answer(400, "VALIDATION_ERROR", db)
  ELSE AnswerByName(InTransaction(db, PutByNameStatements(db.transactions[id], id, b),
                                  failAt), 200)


\* ------------------------------------------- utils/recalculateBalance.ts

RECURSIVE SumAmounts(_, _)
SumAmounts(rows, ids) ==
  IF ids = {} THEN 0
  ELSE LET i == CHOOSE x \in ids : TRUE IN rows[i].amount + SumAmounts(rows, ids \ {i})

\* The name of the row that a relation filter (type: { name }, category:
\* { name }) reads through the foreign key id.
NameIn(table, id) == IF id \in DOMAIN table THEN table[id].name ELSE NULL

TypeNameOf(row) == NameIn(types, row.typeId)
CategoryNameOf(row) == NameIn(categories, row.categoryId)

\* prisma.transaction.aggregate({_sum: {amount}, where: {sourceId, type: {name},
\* category: {name}}}) || 0 over the given TransactionType and Category tables;
\* categoryName = UNDEF leaves the category unfiltered.
AggregateOver(typeTable, categoryTable, db, sourceId, typeName, categoryName) ==
  SumAmounts(db.transactions,
             {i \in DOMAIN db.transactions :
                /\ db.transactions[i].sourceId = sourceId
                /\ NameIn(typeTable, db.transactions[i].typeId) = typeName
                /\ \/ categoryName = UNDEF
                   \/ NameIn(categoryTable, db.transactions[i].categoryId) = categoryName})

AggregateSum(db, sourceId, typeName, categoryName) ==
  AggregateOver(types, categories, db, sourceId, typeName, categoryName)

\* recalculateBalance over the given TransactionType and Category tables.
RecalculateOver(typeTable, categoryTable, db, sourceId, initialAmount) ==
  LET totalPemasukan == AggregateOver(typeTable, categoryTable, db, sourceId, "Pemasukan", UNDEF)
      totalPengeluaran == AggregateOver(typeTable, categoryTable, db, sourceId, "Pengeluaran", UNDEF)
      totalTransferOut == AggregateOver(typeTable, categoryTable, db, sourceId, "Transfer", "Keluar")
      totalTransferIn == AggregateOver(typeTable, categoryTable, db, sourceId, "Transfer", "Masuk")
  IN initialAmount + totalPemasukan + totalTransferIn - totalPengeluaran - totalTransferOut

recalculateBalance(db, sourceId, initialAmount) ==
  RecalculateOver(types, categories, db, sourceId, initialAmount)

\* A recalculation that also writes its result to the source.
RecalculateAndStore(db, sourceId, initialAmount) ==
  LET value == RecalculateOver(types, categories, db, sourceId, initialAmount)
  IN [value |-> value, db |-> [db EXCEPT !.sources[sourceId].balance = value]]

\* A call of recalculateBalance: the value it returns and the store it leaves.
\* Its four statements are prisma.transaction.aggregate reads.
RecalculateCall(db, sourceId, initialAmount) ==
  [value |-> recalculateBalance(db, sourceId, initialAmount), db |-> db]

\* ----------------------------------------------------- routes/sources.ts

\* A request's optional initialAmount: <<>> when absent, <<n>> when a number.
InitialAmounts == {<<>>, <<0>>, <<1>>}

\* @@unique([name, userId]) of model Source, for the row `id` about to be written.
NameTaken(db, id, name, userId) ==
  \E s \in DOMAIN db.sources \ {id} :
     db.sources[s].name = name /\ db.sources[s].userId = userId

\* POST /sources of the revision src/src/routes/sources.ts: `initialAmount:
\* initialAmount || 0` and no balance in the data, so balance takes its
\* default 0.
PostSourceEarlier(db, userId, name, initialAmount) ==
  IF \E s \in DOMAIN db.sources :
        /\ Lower(db.sources[s].name) = Lower(name)
        /\ db.sources[s].userId \in {NULL, userId}
  THEN Answer(409, "SOURCE_EXISTS", db)
  ELSE LET id == SourceIdOf(db.nextSource)
       IN Answer(201, "OK",
                 [db EXCEPT !.sources = [s \in DOMAIN @ \cup {id} |->
                                           IF s = id
                                           THEN [name |-> name, userId |-> userId,
                                                 initialAmount |->
                                                   IF initialAmount # <<>> THEN initialAmount[1]
                                                   ELSE 0,
                                                 balance |-> 0]
                                           ELSE @[s]],
                            !.nextSource = @ + 1])

\* POST /sources, whole handler.
PostSourceOutcome(db, userId, name, initialAmount) ==
  IF \E s \in DOMAIN db.sources :
        /\ Lower(db.sources[s].name) = Lower(name)
        /\ db.sources[s].userId \in {NULL, userId}
  THEN Answer(409, "SOURCE_EXISTS", db)
  ELSE LET validInitialAmount ==
             IF initialAmount # <<>> /\ initialAmount[1] >= 0 THEN initialAmount[1] ELSE 0
           id == SourceIdOf(db.nextSource)
       IN Answer(201, "OK",
                 [db EXCEPT !.sources = [s \in DOMAIN @ \cup {id} |->
                                           IF s = id
                                           THEN [name |-> name, userId |-> userId,
                                                 initialAmount |-> validInitialAmount,
                                                 balance |-> validInitialAmount]
                                           ELSE @[s]],
                            !.nextSource = @ + 1])

\* PUT /sources/:id, whole handler.
PutSourceOutcome(db, userId, id, name, initialAmount) ==
  IF ~(id \in DOMAIN db.sources /\ db.sources[id].userId = userId)
  THEN Answer(404, "NOT_FOUND", db)
  ELSE LET existing == db.sources[id]
           newName == ~Falsy(name) /\ name # existing.name
           newInitial == initialAmount # <<>> /\ initialAmount[1] # existing.initialAmount
       IN IF ~newName /\ ~newInitial THEN Answer(400, "NO_CHANGES", db)
          ELSE IF newName /\ NameTaken(db, id, name, userId)
          THEN Answer(500, "INTERNAL_ERROR", db)
          ELSE Answer(200, "OK",
                 [db EXCEPT !.sources[id] =
                    [@ EXCEPT !.name = IF newName THEN name ELSE @,
                              !.initialAmount = IF newInitial THEN initialAmount[1] ELSE @,
                              !.balance = IF newInitial
                                          THEN recalculateBalance(db, id, initialAmount[1])
                                          ELSE @]])

\* prisma.source.delete: the optional relations source / targetSource of
\* Transaction carry no onDelete, so the referencing columns are set to null.
DeleteSourceRow(db, id) ==
  [db EXCEPT !.sources = [s \in DOMAIN @ \ {id} |-> @[s]],
             !.transactions =
                [i \in DOMAIN @ |->
                   [@[i] EXCEPT !.sourceId = IF @ = id THEN NULL ELSE @,
                                !.targetSourceId = IF @ = id THEN NULL ELSE @]]]

\* DELETE /sources/:id, whole handler.
DeleteSourceOutcome(db, userId, id) ==
  IF ~(id \in DOMAIN db.sources /\ db.sources[id].userId = userId)
  THEN Answer(404, "NOT_FOUND", db)
  ELSE Answer(200, "OK", DeleteSourceRow(db, id))

\* ------------------------------------------------------------- the system

InBounds(db) ==
  /\ db.nextTx <= MaxTx + 1
  /\ db.nextSource <= MaxSources + 1
  /\ \A s \in DOMAIN db.sources :
        db.sources[s].balance \in (0 - MaxBalance)..MaxBalance

\* A request: its route, its caller, the id it addresses (for a POST, the id
\* the new row gets), its body and the statement at which the storage engine
\* was made to fail (0: none).
Request(op, userId, id, body, failAt) ==
  [op |-> op, userId |-> userId, id |-> id, body |-> body, failAt |-> failAt]

\* `res` keeps the last request that wrote to the store or met a storage
\* failure, with its answer and, for a DELETE, the row it removed; any other
\* request leaves it as it was.
Response(req, removed, a) ==
  IF a.db = Store /\ req.failAt = 0 THEN res
  ELSE [req |-> req, removed |-> removed, status |-> a.status, code |-> a.code]

NoRequest ==
  [req |-> Request("none", NULL, 0, <<>>, 0), removed |-> <<>>, status |-> 0, code |-> ""]

\* The row a DELETE handler reads by id before it removes it.
Existing(rows, id) == IF id \in DOMAIN rows THEN rows[id] ELSE <<>>

\* The handler's store becomes the store.
Becomes(req, removed, a) ==
  LET o == a IN
  /\ InBounds(o.db)
  /\ sources' = o.db.sources
  /\ transactions' = o.db.transactions
  /\ nextSource' = o.db.nextSource
  /\ nextTx' = o.db.nextTx
  /\ res' = Response(req, removed, o)

\* A handler that runs from its first read to its answer with no other request
\* in between.
Apply(req, removed, a) ==
  /\ Becomes(req, removed, a)
  /\ UNCHANGED <<inflight, committed>>

\* The clients that may have a request in flight at the same time.
Clients == {"c1", "c2"}
Idle == [req |-> Request("none", NULL, 0, <<>>, 0), existing |-> <<>>]

\* The seeded store after u1 has created two sources with no initial amount
\* (POST /sources twice).
InitStore ==
  [sources |-> [s \in {"s1", "s2"} |->
                  [name |-> IF s = "s1" THEN "Dompet" ELSE "Bank", userId |-> "u1",
                   initialAmount |-> 0, balance |-> 0]],
   transactions |-> <<>>,
   nextSource |-> 3,
   nextTx |-> 1]

Init ==
  /\ sources = InitStore.sources
  /\ transactions = InitStore.transactions
  /\ types = SeedTypes
  /\ categories = SeedCategories
  /\ nextSource = InitStore.nextSource
  /\ nextTx = InitStore.nextTx
  /\ res = NoRequest
  /\ inflight = [c \in Clients |-> Idle]
  /\ committed = <<>>

PostTransaction ==
  \E userId \in Creators, b \in TransactionBody :
    /\ Apply(Request("POST /transactions", userId, nextTx, b, 0), <<>>, PostOutcome(Store, userId, b, 0))
    /\ UNCHANGED <<types, categories>>

\* Every body of a caller who does not own the row is answered the same way.
BodiesFor(userId, id) ==
  IF Owned(Store, id, userId) THEN TransactionBody
  ELSE {Body(IncomeType, "s1", UNDEF, "makan-cat", 1)}

PutTransaction ==
  \E userId \in Users, id \in TxIds :
    \E b \in BodiesFor(userId, id) :
      /\ Apply(Request("PUT /transactions", userId, id, b, 0), <<>>,
               PutOutcome(Store, userId, id, b, 0))
      /\ UNCHANGED <<types, categories>>
  
DeleteTransaction ==
  \E userId \in Users, id \in TxIds :
    /\ Apply(Request("DELETE /transactions", userId, id, <<>>, 0), Existing(transactions, id),
             DeleteOutcome(Store, userId, id, 0))
    /\ UNCHANGED <<types, categories>>

Next ==
  \/ PostTransaction
  \/ PutTransaction
  \/ DeleteTransaction

Spec == Init /\ [][Next]_vars

\* --------------------------------------- the source routes and the ledger

\* The bodies the ledger is driven with next to the source routes: one body
\* of each type that POST accepts, and a transfer that names no target.
LedgerBody ==
  {Body(IncomeType, "s1", UNDEF, "gaji-cat", 1),
   Body(ExpenseType, "s1", UNDEF, "makan-cat", 1),
   Body(TransferType, "s1", "s2", UNDEF, 1),
   Body(TransferType, "s2", "s1", UNDEF, 1),
   Body(TransferType, "s1", UNDEF, UNDEF, 1)}

SourceBody(name, initialAmount) == [name |-> name, initialAmount |-> initialAmount]

PostLedger ==
  \E userId \in Creators, b \in LedgerBody :
    /\ Apply(Request("POST /transactions", userId, nextTx, b, 0), <<>>, PostOutcome(Store, userId, b, 0))
    /\ UNCHANGED <<types, categories>>

PutLedger ==
  \E userId \in Creators, id \in TxIds, b \in LedgerBody :
    /\ Apply(Request("PUT /transactions", userId, id, b, 0), <<>>,
               PutOutcome(Store, userId, id, b, 0))
    /\ UNCHANGED <<types, categories>>

DeleteLedger ==
  \E userId \in Creators, id \in TxIds :
    /\ Apply(Request("DELETE /transactions", userId, id, <<>>, 0), Existing(transactions, id),
             DeleteOutcome(Store, userId, id, 0))
    /\ UNCHANGED <<types, categories>>

PostSource ==
  \E userId \in Creators, name \in SourceNames, initialAmount \in InitialAmounts :
    /\ Apply(Request("POST /sources", userId, SourceIdOf(nextSource),
                     SourceBody(name, initialAmount), 0), <<>>,
             PostSourceOutcome(Store, userId, name, initialAmount))
    /\ UNCHANGED <<types, categories>>

PutSource ==
  \E userId \in Users, id \in SourceIdPool :
    \E name \in SourceNames \cup {UNDEF}, initialAmount \in InitialAmounts :
      /\ Apply(Request("PUT /sources", userId, id, SourceBody(name, initialAmount), 0),
               <<>>, PutSourceOutcome(Store, userId, id, name, initialAmount))
      /\ UNCHANGED <<types, categories>>

DeleteSource ==
  \E userId \in Users, id \in SourceIdPool :
    /\ Apply(Request("DELETE /sources", userId, id, <<>>, 0), Existing(sources, id),
             DeleteSourceOutcome(Store, userId, id))
    /\ UNCHANGED <<types, categories>>

NextSources ==
  \/ PostLedger
  \/ PutLedger
  \/ DeleteLedger
  \/ PostSource
  \/ PutSource
  \/ DeleteSource

SpecSources == Init /\ [][NextSources]_vars

\* ------------------------------------------- the ledger on a failing store

\* The same requests with the storage engine failing at one statement of the
\* callback: the rejected promise leaves the callback, $transaction rolls
\* back and the handler's catch answers 500.
PostFailing ==
  \E userId \in Creators, b \in LedgerBody :
    \E failAt \in 1..Len(PostStatements(userId, b)) :
      /\ Apply(Request("POST /transactions", userId, nextTx, b, failAt), <<>>,
               PostOutcome(Store, userId, b, failAt))
      /\ UNCHANGED <<types, categories>>

PutFailing ==
  \E userId \in Creators, id \in DOMAIN transactions, b \in LedgerBody :
    \E failAt \in 1..Len(PutStatements(transactions[id], id, b)) :
      /\ Apply(Request("PUT /transactions", userId, id, b, failAt), <<>>,
               PutOutcome(Store, userId, id, b, failAt))
      /\ UNCHANGED <<types, categories>>

DeleteFailing ==
  \E userId \in Creators, id \in DOMAIN transactions :
    \E failAt \in 1..Len(DeleteStatements(transactions[id], id)) :
      /\ Apply(Request("DELETE /transactions", userId, id, <<>>, failAt), <<>>,
               DeleteOutcome(Store, userId, id, failAt))
      /\ UNCHANGED <<types, categories>>

NextFail ==
  \/ PostLedger
  \/ PutLedger
  \/ DeleteLedger
  \/ PostFailing
  \/ PutFailing
  \/ DeleteFailing

SpecFail == Init /\ [][NextFail]_vars

\* C5: when a storage step inside the callback of a POST, PUT or DELETE
\* /transactions fails, the request is answered with an error and the rows,
\* every source (so every balance) and the id counter are what they were
\* before the request, whichever statement failed.
C5_AtomicUnderStorageFailure ==
  \A userId \in Creators, b \in LedgerBody :
    /\ \A failAt \in 1..Len(PostStatements(userId, b)) :
         LET a == PostOutcome(Store, userId, b, failAt)
         IN a.status >= 400 /\ a.db = Store
    /\ \A id \in DOMAIN transactions :
         /\ \A failAt \in 1..Len(PutStatements(transactions[id], id, b)) :
              LET a == PutOutcome(Store, userId, id, b, failAt)
              IN a.status >= 400 /\ a.db = Store
         /\ \A failAt \in 1..Len(DeleteStatements(transactions[id], id)) :
              LET a == DeleteOutcome(Store, userId, id, failAt)
              IN a.status >= 400 /\ a.db = Store

\* the credit of the target failed in a PUT to a transfer, after the revert,
\* the row update and the debit had run: the stored income and its balance stand
C5_Witness ==
  /\ res.req.op = "PUT /transactions" /\ res.status = 500
  /\ res.req.body.typeId = TransferType
  /\ ~Falsy(res.req.body.targetSourceId)
  /\ res.req.failAt = 5
  /\ res.req.id \in DOMAIN transactions
  /\ transactions[res.req.id].typeId = IncomeType
  /\ DOMAIN transactions = {res.req.id}
  /\ sources[transactions[res.req.id].sourceId].balance = transactions[res.req.id].amount

\* ------------------------------------- the revision that reads names, run

PostByName ==
  \E userId \in Creators, b \in LedgerBody :
    /\ Apply(Request("POST /transactions", userId, nextTx, b, 0), <<>>,
             PostByNameOutcome(Store, userId, b, 0))
    /\ UNCHANGED <<types, categories>>

PutByName ==
  \E userId \in Creators, id \in TxIds, b \in LedgerBody :
    /\ Apply(Request("PUT /transactions", userId, id, b, 0), <<>>,
             PutByNameOutcome(Store, userId, id, b, 0))
    /\ UNCHANGED <<types, categories>>

NextByName ==
  \/ PostByName
  \/ PutByName

SpecByName == Init /\ [][NextByName]_vars

\* The store after a request that was answered with an error holds the rows and
\* the sources it held before.
ErrorLeavesStore(a) ==
  a.status >= 400 => (a.db.transactions = transactions /\ a.db.sources = sources)

CurrentErrorsLeaveStore ==
  \A userId \in Users, b \in TransactionBody :
    /\ ErrorLeavesStore(PostOutcome(Store, userId, b, 0))
    /\ \A id \in TxIds : ErrorLeavesStore(PutOutcome(Store, userId, id, b, 0))

ByNameErrorsLeaveStore ==
  \A userId \in Users, b \in TransactionBody :
    /\ ErrorLeavesStore(PostByNameOutcome(Store, userId, b, 0))
    /\ \A id \in TxIds : ErrorLeavesStore(PutByNameOutcome(Store, userId, id, b, 0))

\* C6: in the revision that dispatches on type ids and in the one that reads
\* type names, a POST or PUT /transactions answered with an error leaves the
\* stored rows and every source balance as they were before the request.
C6_NoPartialCommit == CurrentErrorsLeaveStore /\ ByNameErrorsLeaveStore

\* ------------------------------------------------- two clients at a time

MaxRequests == 3      \* requests committed or in flight in one behaviour

Budget == Len(committed) + Cardinality({c \in Clients : inflight[c] # Idle}) < MaxRequests

\* the requests committed so far, and this one if its answer is `ok`
Committing(req, a, ok) == IF a.status = ok THEN Append(committed, req) ELSE committed

\* POST /transactions reads no row before its $transaction: one step.
PostConcurrent ==
  \E c \in Clients, userId \in Creators, b \in LedgerBody :
    LET req == Request("POST /transactions", userId, nextTx, b, 0)
        a == PostOutcome(Store, userId, b, 0)
    IN /\ inflight[c] = Idle
       /\ Budget
       /\ Becomes(req, <<>>, a)
       /\ committed' = Committing(req, a, 201)
       /\ UNCHANGED <<types, categories, inflight>>

\* PUT /transactions/:id up to the validation: `existing` is read with
\* prisma.transaction.findUnique, outside the $transaction that follows.
ReadPut ==
  \E c \in Clients, userId \in Creators, id \in TxIds, b \in LedgerBody :
    /\ inflight[c] = Idle
    /\ Budget
    /\ Owned(Store, id, userId)
    /\ inflight' = [inflight EXCEPT ![c] =
                      [req |-> Request("PUT /transactions", userId, id, b, 0),
                       existing |-> transactions[id]]]
    /\ UNCHANGED <<sources, transactions, types, categories, nextSource, nextTx, res,
                   committed>>

\* PUT /transactions/:id from the $transaction on, with the row read before.
CommitPut ==
  \E c \in Clients :
    LET r == inflight[c]
        a == PutCommit(Store, r.existing, r.req.id, r.req.body, 0)
    IN /\ r.req.op = "PUT /transactions"
       /\ Becomes(r.req, <<>>, a)
       /\ committed' = Committing(r.req, a, 200)
       /\ inflight' = [inflight EXCEPT ![c] = Idle]
       /\ UNCHANGED <<types, categories>>

\* DELETE /transactions/:id up to the ownership check.
ReadDelete ==
  \E c \in Clients, userId \in Creators, id \in TxIds :
    /\ inflight[c] = Idle
    /\ Budget
    /\ Owned(Store, id, userId)
    /\ inflight' = [inflight EXCEPT ![c] =
                      [req |-> Request("DELETE /transactions", userId, id, <<>>, 0),
                       existing |-> transactions[id]]]
    /\ UNCHANGED <<sources, transactions, types, categories, nextSource, nextTx, res,
                   committed>>

\* DELETE /transactions/:id from the $transaction on.
CommitDelete ==
  \E c \in Clients :
    LET r == inflight[c]
        a == DeleteCommit(Store, r.existing, r.req.id, 0)
    IN /\ r.req.op = "DELETE /transactions"
       /\ Becomes(r.req, r.existing, a)
       /\ committed' = Committing(r.req, a, 200)
       /\ inflight' = [inflight EXCEPT ![c] = Idle]
       /\ UNCHANGED <<types, categories>>

NextConcurrent ==
  \/ PostConcurrent
  \/ ReadPut
  \/ CommitPut
  \/ ReadDelete
  \/ CommitDelete

SpecConcurrent == Init /\ [][NextConcurrent]_vars

\* The store after the whole handler of req has run on db with no other
\* request in between (a POST inserts under the id its row was given).
Handled(db, req) ==
  IF req.op = "POST /transactions"
  THEN PostOutcome([db EXCEPT !.nextTx = req.id], req.userId, req.body, 0).db
  ELSE IF req.op = "PUT /transactions"
  THEN PutOutcome(db, req.userId, req.id, req.body, 0).db
  ELSE DeleteOutcome(db, req.userId, req.id, 0).db

RECURSIVE Serially(_, _)
Serially(db, reqs) ==
  IF reqs = <<>> THEN db ELSE Serially(Handled(db, Head(reqs)), Tail(reqs))

\* C10: once no request is in flight, the stored rows and the sources are those
\* some serial execution of the committed requests leaves, whatever the
\* interleaving of two clients' creates, updates and deletes was.
C10_SerialOutcome ==
  (\A c \in Clients : inflight[c] = Idle) =>
    \E p \in Permutations(1..Len(committed)) :
      LET end == Serially(InitStore, [i \in 1..Len(committed) |-> committed[p[i]]])
      IN end.sources = sources /\ end.transactions = transactions

\* ------------------------------------------------------ the ledger's claims

\* The balance effect on source s that the ledger rules give a record (a stored
\* row or a request body) with these type, sourceId, targetSourceId and amount.
Effect(r, s) ==
  IF r.typeId = IncomeType THEN (IF r.sourceId = s THEN r.amount ELSE 0)
  ELSE IF r.typeId = ExpenseType THEN (IF r.sourceId = s THEN 0 - r.amount ELSE 0)
  ELSE IF IsTransferKind(r.typeId)
  THEN (IF r.sourceId = s THEN 0 - r.amount ELSE 0)
       + (IF r.targetSourceId = s THEN r.amount ELSE 0)
  ELSE 0

RECURSIVE SumEffects(_, _, _)
SumEffects(rows, ids, s) ==
  IF ids = {} THEN 0
  ELSE LET i == CHOOSE x \in ids : TRUE IN Effect(rows[i], s) + SumEffects(rows, ids \ {i}, s)

\* initialAmount plus the signed effects of the stored rows that name s.
LedgerBalance(db, s) ==
  db.sources[s].initialAmount + SumEffects(db.transactions, DOMAIN db.transactions, s)

\* db2 holds the rows of db1 and the one new row `row` under the next id.
InsertsOneRow(db1, db2, row) ==
  /\ db1.nextTx \notin DOMAIN db1.transactions
  /\ DOMAIN db2.transactions = DOMAIN db1.transactions \cup {db1.nextTx}
  /\ \A i \in DOMAIN db1.transactions : db2.transactions[i] = db1.transactions[i]
  /\ db2.transactions[db1.nextTx] = row

\* db2 holds the sources of db1 with each balance moved by delta[s].
MovesBalances(db1, db2, delta(_)) ==
  /\ DOMAIN db2.sources = DOMAIN db1.sources
  /\ \A s \in DOMAIN db1.sources :
        db2.sources[s] = [db1.sources[s] EXCEPT !.balance = @ + delta(s)]

\* C1: after any sequence of POST / PUT / DELETE /transactions from sources
\* whose balance equals their initialAmount, every stored balance equals what
\* recalculateBalance(sourceId, initialAmount) computes from the stored rows.
C1_BalanceEqualsRecalculated ==
  \A s \in DOMAIN sources :
     sources[s].balance = recalculateBalance(Store, s, sources[s].initialAmount)

\* C3: a POST of an income (expense) body that is answered 201 inserted exactly
\* one row, with the body's source, and moved that source's balance by +amount
\* (-amount) and no other balance; and every income / expense body that names a
\* stored source and a category is answered 201.
C3_CreateIncomeExpense ==
  \A userId \in Creators, b \in TransactionBody :
    LET a == PostOutcome(Store, userId, b, 0)
        signed == IF b.typeId = IncomeType THEN b.amount ELSE 0 - b.amount
        delta(s) == IF s = b.sourceId THEN signed ELSE 0
    IN b.typeId \in {IncomeType, ExpenseType} =>
         /\ (b.sourceId \in DOMAIN sources /\ b.categoryId \in DOMAIN categories)
               => a.status = 201
         /\ a.status = 201 =>
              /\ InsertsOneRow(Store, a.db,
                    [userId |-> userId, typeId |-> b.typeId, sourceId |-> b.sourceId,
                     targetSourceId |-> NULL, categoryId |-> b.categoryId,
                     amount |-> b.amount])
              /\ a.db.nextTx = nextTx + 1
              /\ MovesBalances(Store, a.db, delta)

\* an expense was created and its source went below zero by its amount
C3_Witness ==
  /\ res.req.op = "POST /transactions" /\ res.status = 201
  /\ res.req.body.typeId = ExpenseType
  /\ DOMAIN transactions = {res.req.id}
  /\ transactions[res.req.id].typeId = ExpenseType
  /\ sources[res.req.body.sourceId].balance = 0 - res.req.body.amount

\* C4: a POST of a transfer / saving body from X to Y that is answered 201 has
\* X # Y and inserted exactly one row, carrying sourceId = X, targetSourceId = Y
\* and categoryId = null, moved X's balance by -amount, Y's by +amount and no
\* other; and every transfer body between two different stored sources is
\* answered 201.
C4_CreateTransfer ==
  \A userId \in Creators, b \in TransactionBody :
    LET a == PostOutcome(Store, userId, b, 0)
        delta(s) == IF s = b.sourceId THEN 0 - b.amount
                    ELSE IF s = b.targetSourceId THEN b.amount ELSE 0
    IN IsTransferKind(b.typeId) =>
         /\ (/\ b.typeId \in DOMAIN types
             /\ {b.sourceId, b.targetSourceId} \subseteq DOMAIN sources
             /\ b.sourceId # b.targetSourceId) => a.status = 201
         /\ a.status = 201 =>
              /\ b.sourceId # b.targetSourceId
              /\ InsertsOneRow(Store, a.db,
                    [userId |-> userId, typeId |-> b.typeId, sourceId |-> b.sourceId,
                     targetSourceId |-> b.targetSourceId, categoryId |-> NULL,
                     amount |-> b.amount])
              /\ a.db.nextTx = nextTx + 1
              /\ MovesBalances(Store, a.db, delta)

\* a transfer of 2 was created as the only row: -2 on its source, +2 on its target
C4_Witness ==
  /\ res.req.op = "POST /transactions" /\ res.status = 201
  /\ res.req.body.typeId = TransferType /\ res.req.body.amount = 2
  /\ DOMAIN transactions = {res.req.id}
  /\ transactions[res.req.id].targetSourceId = res.req.body.targetSourceId
  /\ transactions[res.req.id].categoryId = NULL
  /\ sources[res.req.body.sourceId].balance = 0 - 2
  /\ sources[res.req.body.targetSourceId].balance = 2

\* C7: a PUT that is answered 200 leaves every source balance at its value
\* before, minus the effect of the stored row (its own type, sourceId,
\* targetSourceId and amount), plus the effect of the new body.
C7_UpdateReversal ==
  \A userId \in Users, id \in TxIds, b \in TransactionBody :
    LET a == PutOutcome(Store, userId, id, b, 0)
        delta(s) == Effect(b, s) - Effect(transactions[id], s)
    IN a.status = 200 => MovesBalances(Store, a.db, delta)

\* the only row ever created was updated to an expense of 1 on a source that an
\* income or transfer of 2 had moved: the source stands at -1
C7_Witness ==
  /\ res.req.op = "PUT /transactions" /\ res.status = 200
  /\ res.req.body.typeId = ExpenseType /\ res.req.body.amount = 1
  /\ nextTx = 2 /\ DOMAIN transactions = {1}
  /\ transactions[1].amount = 1
  /\ sources[res.req.body.sourceId].balance = 0 - 1
  /\ \A s \in DOMAIN sources \ {res.req.body.sourceId} : sources[s].balance = 0

\* C9: a POST of a transfer from X to Y (X # Y) followed by the DELETE of the
\* row it created leaves every source and the set of rows as before the POST.
C9_TransferRoundTrip ==
  \A userId \in Creators, b \in TransactionBody :
    LET a == PostOutcome(Store, userId, b, 0)
        d == DeleteOutcome(a.db, userId, nextTx, 0)
    IN (IsTransferKind(b.typeId) /\ a.status = 201) =>
         /\ d.status = 200
         /\ d.db.sources = sources
         /\ d.db.transactions = transactions

\* the transfer created last was deleted again: no row, every balance where it began
C9_Witness ==
  /\ res.req.op = "DELETE /transactions" /\ res.status = 200
  /\ res.removed.typeId = TransferType
  /\ res.removed.targetSourceId \in DOMAIN sources
  /\ res.req.id = nextTx - 1
  /\ DOMAIN transactions = {}
  /\ \A s \in DOMAIN sources : sources[s].balance = sources[s].initialAmount

\* ---------------------------------------- claims over the source routes too

\* C2: every stored source has balance = initialAmount + incomes on it
\* - expenses on it - transfers out of it + transfers into it, after any
\* sequence of source and transaction requests.
C2_BalanceInvariant ==
  \A s \in DOMAIN sources : sources[s].balance = LedgerBalance(Store, s)

\* C8: the DELETE of an owned row is answered 200, removes that row and no
\* other, and moves every source balance by the inverse of the stored row's
\* effect (income: -amount on its source; expense: +amount; transfer: +amount
\* on its source and -amount on its target).
C8_DeleteInverse ==
  \A userId \in Users, id \in TxIds :
    LET a == DeleteOutcome(Store, userId, id, 0)
        delta(s) == 0 - Effect(transactions[id], s)
    IN Owned(Store, id, userId) =>
         /\ a.status = 200
         /\ DOMAIN a.db.transactions = DOMAIN transactions \ {id}
         /\ \A i \in DOMAIN a.db.transactions : a.db.transactions[i] = transactions[i]
         /\ MovesBalances(Store, a.db, delta)

\* ------------------------------------------ rejections and the stored shape

\* C11: a PUT or DELETE of an id that is not stored, or whose row belongs to
\* another user, is answered 404 NOT_FOUND and leaves rows and sources as they
\* were.
C11_NotFoundNoSideEffect ==
  \A userId \in Users, id \in 1..(MaxTx + 1), b \in TransactionBody :
    (id \notin DOMAIN transactions \/ transactions[id].userId # userId) =>
       /\ PutOutcome(Store, userId, id, b, 0) = Answer(404, "NOT_FOUND", Store)
       /\ DeleteOutcome(Store, userId, id, 0) = Answer(404, "NOT_FOUND", Store)

\* row 1 of u1 is stored and row 2 was deleted: u2 asking for row 1 and u1
\* asking for row 2 are both answered 404
C11_Witness ==
  /\ nextTx = 3 /\ DOMAIN transactions = {1} /\ transactions[1].userId = "u1"
  /\ PutOutcome(Store, "u2", 1, Body(ExpenseType, "s1", UNDEF, "makan-cat", 1), 0).status = 404
  /\ DeleteOutcome(Store, "u2", 1, 0).status = 404
  /\ DeleteOutcome(Store, "u1", 2, 0).status = 404
  /\ res.req.op = "DELETE /transactions" /\ res.req.id = 2

\* C12: a POST or PUT whose type is transfer / saving and whose sourceId equals
\* its targetSourceId is answered with an error and leaves rows and sources as
\* they were.
C12_SelfTransferRejected ==
  \A userId \in Users, b \in TransactionBody :
    (IsTransferKind(b.typeId) /\ b.sourceId = b.targetSourceId) =>
       /\ LET a == PostOutcome(Store, userId, b, 0)
          IN a.status >= 400 /\ a.db = Store
       /\ \A id \in TxIds :
            LET a == PutOutcome(Store, userId, id, b, 0)
            IN a.status >= 400 /\ a.db = Store

\* with a stored row of u1 and room for another, a transfer from s1 to s1 is
\* refused as a validation error by POST and by PUT
C12_Witness ==
  /\ nextTx = 2 /\ Owned(Store, 1, "u1")
  /\ PostOutcome(Store, "u1", Body(TransferType, "s1", "s1", UNDEF, 1), 0).code = "VALIDATION_ERROR"
  /\ PutOutcome(Store, "u1", 1, Body(TransferType, "s1", "s1", UNDEF, 1), 0).code = "VALIDATION_ERROR"

\* C13: a PUT answered 200 that turns an income / expense row into a transfer /
\* saving with a targetSourceId stores categoryId = null and that target; one
\* that turns a transfer / saving row into an income / expense stores
\* targetSourceId = null and the body's categoryId.
C13_TypeSwitchNormalised ==
  \A userId \in Users, id \in TxIds, b \in TransactionBody :
    LET a == PutOutcome(Store, userId, id, b, 0) IN
    a.status = 200 =>
      /\ (/\ transactions[id].typeId \in {IncomeType, ExpenseType}
          /\ IsTransferKind(b.typeId) /\ ~Falsy(b.targetSourceId))
            => /\ a.db.transactions[id].typeId = b.typeId
               /\ a.db.transactions[id].categoryId = NULL
               /\ a.db.transactions[id].targetSourceId = b.targetSourceId
      /\ (/\ IsTransferKind(transactions[id].typeId)
          /\ b.typeId \in {IncomeType, ExpenseType})
            => /\ a.db.transactions[id].typeId = b.typeId
               /\ a.db.transactions[id].targetSourceId = NULL
               /\ a.db.transactions[id].categoryId = b.categoryId

\* row 1 is an expense with a category and row 2 a transfer with a target: the
\* PUT of a transfer body on row 1 and of an expense body on row 2 are answered 200
C13_Witness ==
  /\ DOMAIN transactions = {1, 2}
  /\ transactions[1].typeId = ExpenseType /\ transactions[1].categoryId = "makan-cat"
  /\ transactions[2].typeId = TransferType /\ transactions[2].targetSourceId = "s2"
  /\ LET a == PutOutcome(Store, "u1", 1, Body(TransferType, "s1", "s2", UNDEF, 1), 0)
     IN a.status = 200 /\ a.db.transactions[1].categoryId = NULL
        /\ a.db.transactions[1].targetSourceId = "s2"
  /\ LET a == PutOutcome(Store, "u1", 2, Body(ExpenseType, "s1", UNDEF, "makan-cat", 1), 0)
     IN a.status = 200 /\ a.db.transactions[2].targetSourceId = NULL
        /\ a.db.transactions[2].categoryId = "makan-cat"

\* C14: a PUT of an owned row whose new type is transfer / saving and that has
\* no targetSourceId or names a source or target that is not stored, or whose
\* new type is income / expense and that has no categoryId, is answered with an
\* error and leaves rows and sources as they were.
C14_UpdateEnforcesCreateRules ==
  \A userId \in Users, id \in TxIds, b \in TransactionBody :
    LET a == PutOutcome(Store, userId, id, b, 0) IN
    (/\ Owned(Store, id, userId)
     /\ \/ /\ IsTransferKind(b.typeId)
           /\ \/ Falsy(b.targetSourceId)
              \/ ~({b.sourceId, b.targetSourceId} \subseteq DOMAIN sources)
        \/ b.typeId \in {IncomeType, ExpenseType} /\ Falsy(b.categoryId))
      => a.status >= 400 /\ a.db = Store

\* C15: every stored transfer / saving row has a targetSourceId that is not
\* null and differs from its sourceId, and categoryId = null; every stored
\* income / expense row has targetSourceId = null and a categoryId.
C15_StoredShape ==
  \A i \in DOMAIN transactions :
    LET r == transactions[i] IN
    /\ IsTransferKind(r.typeId) =>
          r.targetSourceId # NULL /\ r.targetSourceId # r.sourceId /\ r.categoryId = NULL
    /\ r.typeId \in {IncomeType, ExpenseType} =>
          r.targetSourceId = NULL /\ r.categoryId # NULL

\* ------------------------------------------------- requests that are refused

\* A body with no amount.
NoAmount(b) == [f \in DOMAIN b \ {"amount"} |-> b[f]]

\* Bodies that fail a check of POST / PUT: an empty description, no amount, no
\* or an empty or an unknown typeId, no sourceId, no categoryId on an expense,
\* and bodies that fail several at once.
MalformedBody ==
  {[Body(IncomeType, "s1", UNDEF, "gaji-cat", 1) EXCEPT !.description = ""],
   NoAmount(Body(ExpenseType, "s1", UNDEF, "makan-cat", 1)),
   Body(UNDEF, "s1", UNDEF, "makan-cat", 1),
   [Body("", "s1", UNDEF, "makan-cat", 1) EXCEPT !.description = ""],
   [Body("no-such-type", UNDEF, UNDEF, "makan-cat", 1) EXCEPT !.description = ""],
   Body(IncomeType, UNDEF, UNDEF, "gaji-cat", 1),
   Body(ExpenseType, "s1", UNDEF, UNDEF, 1),
   [Body(TransferType, "s1", UNDEF, UNDEF, 1) EXCEPT !.description = ""],
   NoAmount([Body(ExpenseType, UNDEF, UNDEF, UNDEF, 1) EXCEPT !.description = ""])}

CheckedBody == LedgerBody \cup MalformedBody

\* The `errors` list of the answer: validationError(errors) carries the fields
\* pushed; error(message, code, status) carries one error and no field.
ValidationDetails(b, a) ==
  IF a.code = "VALIDATION_ERROR" THEN FieldErrors(b) ELSE <<>>

\* The handler's store becomes the store and `res` keeps the request and its
\* answer, whatever the answer.
Recorded(req, a) ==
  /\ InBounds(a.db)
  /\ sources' = a.db.sources
  /\ transactions' = a.db.transactions
  /\ nextSource' = a.db.nextSource
  /\ nextTx' = a.db.nextTx
  /\ res' = [req |-> req, removed |-> <<>>, status |-> a.status, code |-> a.code]
  /\ UNCHANGED <<inflight, committed>>

PostChecked ==
  \E userId \in Creators, b \in CheckedBody :
    /\ Recorded(Request("POST /transactions", userId, nextTx, b, 0),
                PostOutcome(Store, userId, b, 0))
    /\ UNCHANGED <<types, categories>>

PutChecked ==
  \E userId \in Creators, id \in TxIds, b \in CheckedBody :
    /\ Recorded(Request("PUT /transactions", userId, id, b, 0),
                PutOutcome(Store, userId, id, b, 0))
    /\ UNCHANGED <<types, categories>>

NextChecked ==
  \/ PostChecked
  \/ PutChecked
  \/ DeleteLedger

SpecChecked == Init /\ [][NextChecked]_vars

\* The structural checks the claim lists.
FailsStructuralCheck(b) ==
  \/ b.description = ""
  \/ "amount" \notin DOMAIN b
  \/ b.typeId \in {NULL, UNDEF, ""}
  \/ b.sourceId \in {NULL, UNDEF, ""}
  \/ b.typeId \notin {TransferType, SavingType} /\ b.categoryId \in {NULL, UNDEF, ""}

\* C16: a POST or PUT whose body has an empty description, no numeric amount,
\* no typeId, no sourceId, or no categoryId with a type that is not transfer /
\* saving, is answered with an error and inserts no row, updates no row and
\* changes no balance.
C16_ValidationBeforeStorage ==
  \A userId \in Creators, b \in CheckedBody :
    FailsStructuralCheck(b) =>
       /\ LET a == PostOutcome(Store, userId, b, 0)
          IN a.status >= 400 /\ a.db = Store
       /\ \A id \in TxIds :
            LET a == PutOutcome(Store, userId, id, b, 0)
            IN a.status >= 400 /\ a.db = Store

\* the PUT of a body with no amount on the stored income of 1 was answered as a
\* validation error, and the row and its source stand as the POST left them
C16_Witness ==
  /\ res.req.op = "PUT /transactions" /\ res.code = "VALIDATION_ERROR"
  /\ ~AmountIsNumber(res.req.body)
  /\ res.req.id = 1 /\ DOMAIN transactions = {1}
  /\ transactions[1].typeId = IncomeType /\ transactions[1].amount = 1
  /\ sources["s1"].balance = 1

\* The fields of a body that fail a requirement: description non-empty, amount
\* a number, typeId of a stored type, sourceId given, categoryId given unless
\* the type is transfer / saving, targetSourceId given and other than sourceId
\* when it is.
FailingFields(b) ==
  (IF b.description = "" THEN {"description"} ELSE {})
  \cup (IF "amount" \notin DOMAIN b THEN {"amount"} ELSE {})
  \cup (IF b.typeId \notin DOMAIN types THEN {"typeId"} ELSE {})
  \cup (IF b.sourceId \in {NULL, UNDEF, ""} THEN {"sourceId"} ELSE {})
  \cup (IF b.typeId \notin {TransferType, SavingType} /\ b.categoryId \in {NULL, UNDEF, ""}
        THEN {"categoryId"} ELSE {})
  \cup (IF /\ b.typeId \in {TransferType, SavingType}
           /\ b.targetSourceId \in {NULL, UNDEF, "", b.sourceId}
        THEN {"targetSourceId"} ELSE {})

Fields(list) == {list[i] : i \in DOMAIN list}

\* C17: the answer to a POST, or to a PUT of an owned row, whose body has
\* failing fields lists every one of them.
C17_ValidationErrorsComplete ==
  \A userId \in Creators, b \in CheckedBody :
    FailingFields(b) # {} =>
       /\ FailingFields(b) \subseteq
             Fields(ValidationDetails(b, PostOutcome(Store, userId, b, 0)))
       /\ \A id \in TxIds :
            Owned(Store, id, userId) =>
              FailingFields(b) \subseteq
                Fields(ValidationDetails(b, PutOutcome(Store, userId, id, b, 0)))

\* C18: a request that passed validation and meets a domain condition inside
\* the callback is answered with that condition's code: a POST of a transfer
\* with no target as TARGET_SOURCE_ID_REQUIRED; a POST, or a PUT of an owned
\* row, that names a source or target that is not stored as SOURCE_NOT_FOUND.
C18_ErrorKindPreserved ==
  \A userId \in Creators, b \in TransactionBody :
    LET missing == \/ b.sourceId \notin DOMAIN sources
                   \/ /\ IsTransferKind(b.typeId)
                      /\ b.targetSourceId \notin DOMAIN sources \cup {NULL, UNDEF, ""}
    IN (b.typeId \in DOMAIN types /\ FieldErrors(b) = <<>>) =>
         /\ (IsTransferKind(b.typeId) /\ Falsy(b.targetSourceId)) =>
               PostOutcome(Store, userId, b, 0).code = "TARGET_SOURCE_ID_REQUIRED"
         /\ (missing /\ ~(IsTransferKind(b.typeId) /\ Falsy(b.targetSourceId))) =>
               PostOutcome(Store, userId, b, 0).code = "SOURCE_NOT_FOUND"
         /\ \A id \in TxIds :
              (Owned(Store, id, userId) /\ missing) =>
                 PutOutcome(Store, userId, id, b, 0).code = "SOURCE_NOT_FOUND"

\* ------------------------------------------------- types added by a user

\* uuid() of TransactionType.id. The model gives a new type the first id that
\* no stored type bears.
TypeIdOf(k) == "t" \o ToString(k)
TypeNames == {"Hobi", "HOBI", "Amal", "Transfer"}

\* POST /transaction-types, whole handler: the TransactionType table it leaves.
PostTypeOutcome(table, userId, name) ==
  IF name = "" THEN [status |-> 400, code |-> "VALIDATION_ERROR", types |-> table]
  ELSE IF \E t \in DOMAIN table :
            Lower(table[t].name) = Lower(name) /\ table[t].userId \in {NULL, userId}
  THEN [status |-> 409, code |-> "TYPE_EXISTS", types |-> table]
  ELSE LET id == TypeIdOf(CHOOSE k \in 1..(MaxTypes + 2) :
                            /\ TypeIdOf(k) \notin DOMAIN table
                            /\ \A j \in 1..(k - 1) : TypeIdOf(j) \in DOMAIN table)
       IN [status |-> 201, code |-> "OK",
           types |-> [t \in DOMAIN table \cup {id} |->
                        IF t = id THEN [name |-> name, userId |-> userId] ELSE table[t]]]

\* The bodies the ledger is driven with next to the types a user adds: bodies
\* of those types, an income and a transfer.
TypedBody ==
  {Body(t, "s1", UNDEF, "makan-cat", a) : t \in {TypeIdOf(1), TypeIdOf(2)}, a \in Amounts}
  \cup {Body(IncomeType, "s1", UNDEF, "gaji-cat", 1),
        Body(TransferType, "s1", "s2", UNDEF, 1)}

PostType ==
  \E userId \in Creators, name \in TypeNames :
    LET a == PostTypeOutcome(types, userId, name) IN
    /\ Cardinality(DOMAIN a.types \ DOMAIN SeedTypes) <= MaxTypes
    /\ types' = a.types
    /\ UNCHANGED <<sources, transactions, categories, nextSource, nextTx, res,
                   inflight, committed>>

PostTyped ==
  \E userId \in Creators, b \in TypedBody :
    /\ Apply(Request("POST /transactions", userId, nextTx, b, 0), <<>>,
             PostOutcome(Store, userId, b, 0))
    /\ UNCHANGED <<types, categories>>

PutTyped ==
  \E userId \in Creators, id \in TxIds, b \in TypedBody :
    /\ Apply(Request("PUT /transactions", userId, id, b, 0), <<>>,
             PutOutcome(Store, userId, id, b, 0))
    /\ UNCHANGED <<types, categories>>

NextTypes ==
  \/ PostType
  \/ PostTyped
  \/ PutTyped
  \/ DeleteLedger

SpecTypes == Init /\ [][NextTypes]_vars

\* A type id other than the four the routes dispatch on.
IsCustomType(typeId) ==
  typeId \notin {"income-type", "expense-type", "transfer-type", "saving-type", NULL, UNDEF, ""}

\* C19: a POST of a body whose type is one a user added inserts its row and
\* changes no source; a PUT from one such type to another and the DELETE of a
\* row of such a type are answered 2xx and change no source.
C19_CustomTypeNoEffect ==
  \A userId \in Creators, b \in TypedBody :
    (IsCustomType(b.typeId) /\ b.typeId \in DOMAIN types) =>
       /\ LET a == PostOutcome(Store, userId, b, 0)
          IN /\ a.status = 201
             /\ a.db.sources = sources
             /\ InsertsOneRow(Store, a.db,
                   [userId |-> userId, typeId |-> b.typeId, sourceId |-> b.sourceId,
                    targetSourceId |-> NULL, categoryId |-> b.categoryId,
                    amount |-> b.amount])
       /\ \A id \in DOMAIN transactions :
            (Owned(Store, id, userId) /\ IsCustomType(transactions[id].typeId)) =>
               /\ LET a == PutOutcome(Store, userId, id, b, 0)
                  IN /\ a.status = 200
                     /\ a.db.sources = sources
                     /\ a.db.transactions[id].typeId = b.typeId
                     /\ a.db.transactions[id].amount = b.amount
               /\ LET a == DeleteOutcome(Store, userId, id, 0)
                  IN /\ a.status = 200
                     /\ a.db.sources = sources
                     /\ id \notin DOMAIN a.db.transactions

\* next to an income of 1 on s1, row 2 was last updated to 2 of the second type
\* the user added: s1 stands at 1; and its update to the first type and its
\* DELETE would leave s1 at 1
C19_Witness ==
  /\ res.req.op = "PUT /transactions" /\ res.status = 200 /\ res.req.id = 2
  /\ res.req.body.typeId = TypeIdOf(2) /\ res.req.body.amount = 2
  /\ DOMAIN transactions = {1, 2}
  /\ transactions[1].typeId = IncomeType /\ transactions[1].amount = 1
  /\ transactions[2].typeId = TypeIdOf(2) /\ transactions[2].amount = 2
  /\ sources["s1"].balance = 1 /\ sources["s2"].balance = 0
  /\ PutOutcome(Store, "u1", 2, Body(TypeIdOf(1), "s1", UNDEF, "makan-cat", 1), 0).db.sources
       = sources
  /\ DeleteOutcome(Store, "u1", 2, 0).db.sources = sources

\* ------------------------------------------- type names and the balances

\* The names the other seed of the repository gives the same default rows.
RenamedTypes ==
  [id \in DOMAIN types |->
     [types[id] EXCEPT !.name = IF id = IncomeType THEN "Income"
                                ELSE IF id = ExpenseType THEN "Expense"
                                ELSE IF id = TransferType THEN "Transfer" ELSE @]]

RenamedCategories ==
  [id \in DOMAIN categories |->
     [categories[id] EXCEPT !.name = IF id = "in-trans-cat" THEN "Incoming Funds"
                                     ELSE IF id = "out-trans-cat" THEN "Outgoing Funds"
                                     ELSE @]]

\* C20: recalculateBalance gives every source the same balance in the store
\* and in the store that differs from it only in the names of its
\* TransactionType and Category rows.
C20_BalancesIgnoreNames ==
  \A s \in DOMAIN sources, initialAmount \in {0, 1} :
     RecalculateOver(types, categories, Store, s, initialAmount)
       = RecalculateOver(RenamedTypes, RenamedCategories, Store, s, initialAmount)

\* ------------------------------------------------------ the recalculation

\* C21: recalculateBalance(sourceId, initialAmount) returns initialAmount plus
\* the incomes on the source, minus the expenses on it, plus the transfers
\* whose targetSourceId it is, minus the transfers whose sourceId it is, over
\* all stored rows.
C21_RecalculateSumsHistory ==
  \A s \in DOMAIN sources, initialAmount \in {0, 1} :
     recalculateBalance(Store, s, initialAmount)
       = initialAmount + SumEffects(transactions, DOMAIN transactions, s)

C23_InitialAmountEdit ==
  \A userId \in Creators, id \in DOMAIN sources, n \in {0, 1} :
     LET a == PutSourceOutcome(Store, userId, id, UNDEF, <<n>>) IN
     (sources[id].userId = userId /\ n # sources[id].initialAmount) =>
        /\ a.status = 200
        /\ a.db.sources[id].initialAmount = n
        /\ a.db.sources[id].balance = recalculateBalance(Store, id, n)
        /\ a.db.sources[id].balance
             = sources[id].balance + (n - sources[id].initialAmount)

\* C24: a POST, or a PUT of an owned row, of a well-formed expense or transfer
\* whose amount exceeds what its source holds is accepted and applied: the
\* source goes below zero.
C24_NegativeBalancePermitted ==
  \A userId \in Creators, b \in TransactionBody :
    (/\ b.typeId \in DOMAIN types
     /\ b.typeId = ExpenseType \/ IsTransferKind(b.typeId)
     /\ b.sourceId \in DOMAIN sources
     /\ b.typeId = ExpenseType => b.categoryId \in DOMAIN categories
     /\ IsTransferKind(b.typeId) =>
           b.targetSourceId \in DOMAIN sources \ {b.sourceId}) =>
       /\ b.amount > sources[b.sourceId].balance =>
            LET a == PostOutcome(Store, userId, b, 0) IN
            /\ a.status = 201
            /\ a.db.sources[b.sourceId].balance = sources[b.sourceId].balance - b.amount
            /\ a.db.sources[b.sourceId].balance < 0
       /\ \A id \in TxIds :
            Owned(Store, id, userId) =>
              LET a == PutOutcome(Store, userId, id, b, 0)
                  reverted == sources[b.sourceId].balance - Effect(transactions[id], b.sourceId)
              IN b.amount > reverted =>
                   /\ a.status = 200
                   /\ a.db.sources[b.sourceId].balance = reverted - b.amount
                   /\ a.db.sources[b.sourceId].balance < 0

\* the second row, a transfer of 2, was created from a source that held less:
\* the source stands below zero
C24_Witness ==
  /\ res.req.op = "POST /transactions" /\ res.status = 201 /\ res.req.id = 2
  /\ res.req.body.typeId = TransferType /\ res.req.body.amount = 2
  /\ DOMAIN transactions = {1, 2}
  /\ transactions[1].typeId = IncomeType /\ transactions[1].amount = 1
  /\ transactions[1].sourceId = res.req.body.sourceId
  /\ sources[res.req.body.sourceId].balance = 0 - 1

\* C30: DELETE /sources/:id does not remove a source that is the sourceId or
\* the targetSourceId of a stored row.
C30_SourceInUseKept ==
  \A userId \in Users, id \in DOMAIN sources :
    (\E i \in DOMAIN transactions :
        transactions[i].sourceId = id \/ transactions[i].targetSourceId = id) =>
       LET a == DeleteSourceOutcome(Store, userId, id) IN
       /\ id \in DOMAIN a.db.sources
       /\ a.db.transactions = transactions

\* ------------------------------------------------------- amounts with a sign

\* Bodies whose amount is a number below zero, next to the ledger's bodies:
\* `isNaN(amount)` is the only test of the amount.
SignedBody ==
  LedgerBody \cup {Body(IncomeType, "s1", UNDEF, "gaji-cat", 0 - 1),
                   Body(ExpenseType, "s1", UNDEF, "makan-cat", 0 - 1),
                   Body(TransferType, "s1", "s2", UNDEF, 0 - 1)}

PostSigned ==
  \E userId \in Creators, b \in SignedBody :
    /\ Apply(Request("POST /transactions", userId, nextTx, b, 0), <<>>, PostOutcome(Store, userId, b, 0))
    /\ UNCHANGED <<types, categories>>

PutSigned ==
  \E userId \in Creators, id \in TxIds, b \in SignedBody :
    /\ Apply(Request("PUT /transactions", userId, id, b, 0), <<>>,
               PutOutcome(Store, userId, id, b, 0))
    /\ UNCHANGED <<types, categories>>

NextSigned ==
  \/ PostSigned
  \/ PutSigned
  \/ DeleteLedger

SpecSigned == Init /\ [][NextSigned]_vars

\* C25: every stored row has amount >= 0, and no accepted create makes an
\* income lower, or an expense raise, the balance of its source.
C25_AmountNonNegative ==
  /\ \A i \in DOMAIN transactions : transactions[i].amount >= 0
  /\ \A userId \in Creators, b \in SignedBody :
        LET a == PostOutcome(Store, userId, b, 0) IN
        a.status = 201 =>
          /\ b.typeId = IncomeType =>
                a.db.sources[b.sourceId].balance >= sources[b.sourceId].balance
          /\ b.typeId = ExpenseType =>
                a.db.sources[b.sourceId].balance <= sources[b.sourceId].balance

\* ------------------------------------------- sources of others and defaults

\* The store after prisma/seed.ts has created a source without userId (a
\* default source, listed to every user by GET /sources) and u1 and u2 have
\* each created one source of their own.
InitShared ==
  [sources |-> [s \in {"s1", "s2", "s3"} |->
                  [name |-> IF s = "s1" THEN "Dompet" ELSE IF s = "s2" THEN "Bank" ELSE "Cash",
                   userId |-> IF s = "s1" THEN "u1" ELSE IF s = "s2" THEN "u2" ELSE NULL,
                   initialAmount |-> 0, balance |-> 0]],
   transactions |-> <<>>,
   nextSource |-> 4,
   nextTx |-> 1]

InitSharedStore ==
  /\ sources = InitShared.sources
  /\ transactions = InitShared.transactions
  /\ types = SeedTypes
  /\ categories = SeedCategories
  /\ nextSource = InitShared.nextSource
  /\ nextTx = InitShared.nextTx
  /\ res = NoRequest
  /\ inflight = [c \in Clients |-> Idle]
  /\ committed = <<>>

\* Bodies that name the caller's source, the other user's and the default one.
SharedBody ==
  {Body(IncomeType, s, UNDEF, "gaji-cat", 1) : s \in {"s1", "s2", "s3"}}
  \cup {Body(ExpenseType, "s3", UNDEF, "makan-cat", 1),
        Body(TransferType, "s1", "s2", UNDEF, 1),
        Body(TransferType, "s1", "s3", UNDEF, 1)}

PostShared ==
  \E userId \in Users, b \in SharedBody :
    /\ Apply(Request("POST /transactions", userId, nextTx, b, 0), <<>>, PostOutcome(Store, userId, b, 0))
    /\ UNCHANGED <<types, categories>>

PutShared ==
  \E userId \in Users, id \in TxIds, b \in SharedBody :
    /\ Apply(Request("PUT /transactions", userId, id, b, 0), <<>>,
               PutOutcome(Store, userId, id, b, 0))
    /\ UNCHANGED <<types, categories>>

DeleteShared ==
  \E userId \in Users, id \in TxIds :
    /\ Apply(Request("DELETE /transactions", userId, id, <<>>, 0), Existing(transactions, id),
             DeleteOutcome(Store, userId, id, 0))
    /\ UNCHANGED <<types, categories>>

\* The source routes addressed to the caller's own source, to another user's
\* and to the default one.
SharedSourceIds == {"s1", "s3"}

PutSharedSource ==
  \E userId \in Users, id \in SharedSourceIds :
    /\ Apply(Request("PUT /sources", userId, id, SourceBody("Bank", <<>>), 0),
             <<>>, PutSourceOutcome(Store, userId, id, "Bank", <<>>))
    /\ UNCHANGED <<types, categories>>

DeleteSharedSource ==
  \E userId \in Users, id \in SharedSourceIds :
    /\ Apply(Request("DELETE /sources", userId, id, <<>>, 0), Existing(sources, id),
             DeleteSourceOutcome(Store, userId, id))
    /\ UNCHANGED <<types, categories>>

NextShared ==
  \/ PostShared
  \/ PutShared
  \/ DeleteShared
  \/ PutSharedSource
  \/ DeleteSharedSource

SpecShared == InitSharedStore /\ [][NextShared]_vars

\* The seeded rows without an owner.
DefaultsOf(table) == {id \in DOMAIN table : table[id].userId = NULL}

\* C26: no sequence of requests changes a field of an entity whose owner is
\* null: the default sources, types and categories stay as seeded (balance
\* included), and none is renamed or deleted.
C26_DefaultsReadOnly ==
  /\ \A s \in DefaultsOf(InitShared.sources) :
        s \in DOMAIN sources /\ sources[s] = InitShared.sources[s]
  /\ \A t \in DefaultsOf(SeedTypes) : t \in DOMAIN types /\ types[t] = SeedTypes[t]
  /\ \A c \in DefaultsOf(SeedCategories) :
        c \in DOMAIN categories /\ categories[c] = SeedCategories[c]

\* C27: a create, or an update of an owned row, whose body names as sourceId
\* or targetSourceId a source owned by another user is answered 404 and
\* leaves the store, that source's balance included, as it was.
C27_ForeignSourceRefused ==
  \A userId \in Users, b \in SharedBody :
    (\E s \in {b.sourceId, b.targetSourceId} \cap DOMAIN sources :
        sources[s].userId \notin {NULL, userId}) =>
      /\ LET a == PostOutcome(Store, userId, b, 0) IN
         a.status = 404 /\ a.db = Store
      /\ \A id \in TxIds :
           Owned(Store, id, userId) =>
             LET a == PutOutcome(Store, userId, id, b, 0) IN
             a.status = 404 /\ a.db = Store

\* --------------------------------------------------- names that differ in case

\* Names a request may carry: two of them differ from a stored name in case only.
CasedNames == {"Dompet", "DOMPET", "Bank", "bank"}

PostNamed ==
  \E userId \in Users, name \in CasedNames :
    /\ Apply(Request("POST /sources", userId, SourceIdOf(nextSource),
                     SourceBody(name, <<>>), 0), <<>>,
             PostSourceOutcome(Store, userId, name, <<>>))
    /\ UNCHANGED <<types, categories>>

PutNamed ==
  \E userId \in Users, id \in SourceIdPool, name \in CasedNames :
    /\ Apply(Request("PUT /sources", userId, id, SourceBody(name, <<>>), 0),
             <<>>, PutSourceOutcome(Store, userId, id, name, <<>>))
    /\ UNCHANGED <<types, categories>>

NextNames ==
  \/ PostNamed
  \/ PutNamed
  \/ PostType

SpecNames == Init /\ [][NextNames]_vars

\* No two rows of a table that one user sees (his own and the defaults) bear
\* names that are equal when case is ignored.
NamesUnique(table) ==
  \A a, b \in DOMAIN table :
    (a # b /\ Lower(table[a].name) = Lower(table[b].name)) =>
       /\ table[a].userId # table[b].userId
       /\ table[a].userId # NULL
       /\ table[b].userId # NULL

\* C28: in every reachable state no two sources, and no two transaction
\* types, visible to one user have names equal ignoring case, after any
\* sequence of creates and renames.
C28_NamesUnique ==
  /\ NamesUnique(sources)
  /\ NamesUnique(types)

\* ------------------------------------------------ categories added by a user

MaxCategories == 2

\* uuid() of Category.id. The model gives a new category the first id that no
\* stored category bears: no row can still name a category that was deleted.
CategoryIdOf(k) == IF k = 1 THEN "c1" ELSE IF k = 2 THEN "c2" ELSE IF k = 3 THEN "c3" ELSE "c4"
CategoryIdPool == {CategoryIdOf(k) : k \in 1..MaxCategories} \cup {"makan-cat"}
CategoryNames == {"Kopi", "Jajan", "Makan"}

\* POST /categories, whole handler: the Category table it leaves.
PostCategoryOutcome(table, userId, name, transactionTypeId) ==
  IF Falsy(name) THEN [status |-> 400, code |-> "VALIDATION_ERROR", categories |-> table]
  ELSE IF Falsy(transactionTypeId)
  THEN [status |-> 400, code |-> "VALIDATION_ERROR", categories |-> table]
  ELSE IF \E c \in DOMAIN table :
            Lower(table[c].name) = Lower(name) /\ table[c].userId = NULL
  THEN [status |-> 409, code |-> "CATEGORY_EXISTS", categories |-> table]
  ELSE IF \E c \in DOMAIN table :
            Lower(table[c].name) = Lower(name) /\ table[c].userId = userId
  THEN [status |-> 409, code |-> "CATEGORY_EXISTS", categories |-> table]
  ELSE IF transactionTypeId \notin DOMAIN types
  THEN [status |-> 400, code |-> "INVALID_TRANSACTION_TYPE", categories |-> table]
  ELSE LET id == CategoryIdOf(CHOOSE k \in 1..(MaxCategories + 2) :
                                /\ CategoryIdOf(k) \notin DOMAIN table
                                /\ \A j \in 1..(k - 1) : CategoryIdOf(j) \in DOMAIN table)
       IN [status |-> 201, code |-> "OK",
           categories |-> [c \in DOMAIN table \cup {id} |->
                             IF c = id
                             THEN [name |-> name, transactionTypeId |-> transactionTypeId,
                                   userId |-> userId]
                             ELSE table[c]]]

\* prisma.category.delete: the optional relation category of Transaction
\* carries no onDelete, so the referencing column is set to null.
DeleteCategoryRow(table, rows, id) ==
  [categories |-> [c \in DOMAIN table \ {id} |-> table[c]],
   transactions |-> [i \in DOMAIN rows |->
                       [rows[i] EXCEPT !.categoryId = IF @ = id THEN NULL ELSE @]]]

\* DELETE /categories/:id of the earlier revision, whole handler.
DeleteCategoryEarlier(table, rows, userId, id) ==
  IF ~(id \in DOMAIN table /\ table[id].userId = userId)
  THEN [status |-> 404, code |-> "NOT_FOUND", categories |-> table, transactions |-> rows]
  ELSE [status |-> 200, code |-> "OK"] @@ DeleteCategoryRow(table, rows, id)

\* DELETE /categories/:id, whole handler.
DeleteCategoryOutcome(table, rows, userId, id) ==
  IF id \notin DOMAIN table \/ table[id].userId # userId
  THEN [status |-> 404, code |-> "NOT_FOUND", categories |-> table, transactions |-> rows]
  ELSE IF Cardinality({i \in DOMAIN rows : rows[i].categoryId = id}) > 0
  THEN [status |-> 400, code |-> "CATEGORY_IN_USE", categories |-> table,
        transactions |-> rows]
  ELSE [status |-> 200, code |-> "OK"] @@ DeleteCategoryRow(table, rows, id)

\* Expenses filed under a category of the caller's or under a default one.
CategorisedBody == {Body(ExpenseType, "s1", UNDEF, c, 1) : c \in CategoryIdPool}

PostCategory ==
  \E userId \in Creators, name \in CategoryNames :
    LET a == PostCategoryOutcome(categories, userId, name, ExpenseType) IN
    /\ Cardinality(DOMAIN a.categories \ DOMAIN SeedCategories) <= MaxCategories
    /\ categories' = a.categories
    /\ UNCHANGED <<sources, transactions, types, nextSource, nextTx, res,
                   inflight, committed>>

DeleteCategory ==
  \E userId \in Users, id \in CategoryIdPool :
    LET a == DeleteCategoryOutcome(categories, transactions, userId, id) IN
    /\ categories' = a.categories
    /\ transactions' = a.transactions
    /\ res' = [req |-> Request("DELETE /categories", userId, id, <<>>, 0),
               removed |-> <<>>, status |-> a.status, code |-> a.code]
    /\ UNCHANGED <<sources, types, nextSource, nextTx, inflight, committed>>

PostCategorised ==
  \E userId \in Creators, b \in CategorisedBody :
    /\ Apply(Request("POST /transactions", userId, nextTx, b, 0), <<>>,
             PostOutcome(Store, userId, b, 0))
    /\ UNCHANGED <<types, categories>>

PutCategorised ==
  \E userId \in Creators, id \in TxIds, b \in CategorisedBody :
    /\ Apply(Request("PUT /transactions", userId, id, b, 0), <<>>,
             PutOutcome(Store, userId, id, b, 0))
    /\ UNCHANGED <<types, categories>>

NextCategories ==
  \/ PostCategory
  \/ DeleteCategory
  \/ PostCategorised
  \/ PutCategorised
  \/ DeleteLedger

SpecCategories == Init /\ [][NextCategories]_vars

MaxProvisioned == 6     \* sources created by GET /sources in one behaviour

\* setupDefaultSources: the names it creates, in the order of its loop.
DefaultSourceNames == <<"Dompet", "Tabungan", "Investasi">>

\* The sources a user owns (prisma.source.findMany({ where: { userId } })).
SourcesOf(db, userId) == {s \in DOMAIN db.sources : db.sources[s].userId = userId}

\* One prisma.source.create with no unique index on (name, userId).
CreateDefaultUnchecked(db, userId, k) ==
  LET id == SourceIdOf(db.nextSource)
  IN [ok |-> TRUE,
      db |-> [db EXCEPT !.sources = [s \in DOMAIN @ \cup {id} |->
                                       IF s = id
                                       THEN [name |-> DefaultSourceNames[k], userId |-> userId,
                                             initialAmount |-> 0, balance |-> 0]
                                       ELSE @[s]],
                        !.nextSource = @ + 1]]

\* One turn of the loop of setupDefaultSources: prisma.source.create of the
\* k-th default name, refused by @@unique([name, userId]) when the user holds
\* a source of that name.
CreateDefault(db, userId, k) ==
  LET id == SourceIdOf(db.nextSource)
  IN IF NameTaken(db, id, DefaultSourceNames[k], userId)
     THEN [ok |-> FALSE, db |-> db]
     ELSE [ok |-> TRUE,
           db |-> [db EXCEPT !.sources = [s \in DOMAIN @ \cup {id} |->
                                            IF s = id
                                            THEN [name |-> DefaultSourceNames[k],
                                                  userId |-> userId,
                                                  initialAmount |-> 0, balance |-> 0]
                                            ELSE @[s]],
                             !.nextSource = @ + 1]]

\* setupDefaultSources from its k-th turn on: the first create that throws
\* ends the loop (the catch is around the loop).
RECURSIVE SetupFrom(_, _, _)
SetupFrom(db, userId, k) ==
  IF k > Len(DefaultSourceNames) THEN db
  ELSE LET a == CreateDefault(db, userId, k)
       IN IF a.ok THEN SetupFrom(a.db, userId, k + 1) ELSE db

\* GET /sources, whole handler with no other request in between: the store
\* it leaves.
GetSourcesOutcome(db, userId) ==
  IF SourcesOf(db, userId) = {} THEN SetupFrom(db, userId, 1) ELSE db

\* No user holds a source yet.
InitProvision ==
  /\ sources = << >>
  /\ transactions = << >>
  /\ types = SeedTypes
  /\ categories = SeedCategories
  /\ nextSource = 1
  /\ nextTx = 1
  /\ res = NoRequest
  /\ inflight = [c \in Clients |-> Idle]
  /\ committed = <<>>

\* GET /sources up to its first read: with no source of the user's it goes on
\* to setupDefaultSources, else it only lists.
ReadSources ==
  \E c \in Clients, userId \in Users :
    /\ inflight[c] = Idle
    /\ inflight' = IF SourcesOf(Store, userId) = {}
                   THEN [inflight EXCEPT ![c] =
                           [req |-> Request("GET /sources", userId, 1, <<>>, 0),
                            existing |-> <<>>]]
                   ELSE inflight
    /\ UNCHANGED <<sources, transactions, types, categories, nextSource, nextTx, res,
                   committed>>

\* The next create of a GET /sources that is setting the defaults up; req.id
\* is the turn of the loop.
SetupStep ==
  \E c \in Clients :
    LET r == inflight[c].req
        a == CreateDefault(Store, r.userId, r.id)
    IN /\ r.op = "GET /sources"
       /\ a.db.nextSource <= MaxProvisioned + 1
       /\ sources' = a.db.sources
       /\ nextSource' = a.db.nextSource
       /\ inflight' = [inflight EXCEPT ![c] =
                         IF a.ok /\ r.id < Len(DefaultSourceNames)
                         THEN [@ EXCEPT !.req.id = r.id + 1]
                         ELSE Idle]
       /\ UNCHANGED <<transactions, types, categories, nextTx, res, committed>>

\* DELETE /sources/:id by the owner, at any moment.
DeleteProvisioned ==
  \E userId \in Users, id \in DOMAIN sources :
    LET a == DeleteSourceOutcome(Store, userId, id) IN
    /\ a.status = 200
    /\ sources' = a.db.sources
    /\ UNCHANGED <<transactions, types, categories, nextSource, nextTx, res,
                   inflight, committed>>

NextProvision ==
  \/ ReadSources
  \/ SetupStep
  \/ DeleteProvisioned

SpecProvision == InitProvision /\ [][NextProvision]_vars

\* the names of the sources in ids
NamesOf(db, ids) == {db.sources[s].name : s \in ids}

\* C31: a GET /sources of a user who owns no source, run alone, leaves the
\* user with exactly the three sources Dompet, Tabungan, Investasi, each with
\* initialAmount 0 and balance 0; and however many GET /sources run, one after
\* the other or at the same time, no user ever holds two sources of one of
\* these names.
C31_ProvisionOnce ==
  /\ \A userId \in Users :
        SourcesOf(Store, userId) = {} =>
          LET db == GetSourcesOutcome(Store, userId)
              own == SourcesOf(db, userId)
          IN /\ Cardinality(own) = 3
             /\ NamesOf(db, own) = {"Dompet", "Tabungan", "Investasi"}
             /\ \A s \in own : db.sources[s].initialAmount = 0 /\ db.sources[s].balance = 0
             /\ \A s \in DOMAIN sources : s \in DOMAIN db.sources /\ db.sources[s] = sources[s]
  /\ \A userId \in Users, k \in 1..Len(DefaultSourceNames) :
        Cardinality({s \in SourcesOf(Store, userId) :
                       sources[s].name = DefaultSourceNames[k]}) <= 1

\* two GET /sources of one user both read "no source"; one has set the three
\* up and the other is still about to create its first
C31_Witness ==
  \E c \in Clients :
    /\ inflight[c].req.op = "GET /sources" /\ inflight[c].req.id = 1
    /\ Cardinality(SourcesOf(Store, inflight[c].req.userId)) = 3
    /\ NamesOf(Store, SourcesOf(Store, inflight[c].req.userId))
         = {"Dompet", "Tabungan", "Investasi"}

\* ------------------------------------------------------ types that are in use

\* prisma.transactionType.delete: the optional relations of Category and
\* Transaction to it carry no onDelete, so the referencing columns are set to
\* null.
DeleteTypeRow(typeTable, categoryTable, rows, id) ==
  [types |-> [t \in DOMAIN typeTable \ {id} |-> typeTable[t]],
   categories |-> [c \in DOMAIN categoryTable |->
                     [categoryTable[c] EXCEPT !.transactionTypeId =
                                                 IF @ = id THEN NULL ELSE @]],
   transactions |-> [i \in DOMAIN rows |->
                       [rows[i] EXCEPT !.typeId = IF @ = id THEN NULL ELSE @]]]

\* DELETE /transaction-types/:id without the count of the categories.
DeleteTypeUncounted(typeTable, categoryTable, rows, userId, id) ==
  IF ~(id \in DOMAIN typeTable /\ typeTable[id].userId = userId)
  THEN [status |-> 404, code |-> "NOT_FOUND", types |-> typeTable,
        categories |-> categoryTable, transactions |-> rows]
  ELSE [status |-> 200, code |-> "OK"] @@ DeleteTypeRow(typeTable, categoryTable, rows, id)

\* DELETE /transaction-types/:id, whole handler.
DeleteTypeOutcome(typeTable, categoryTable, rows, userId, id) ==
  IF ~(id \in DOMAIN typeTable /\ typeTable[id].userId = userId)
  THEN [status |-> 404, code |-> "NOT_FOUND", types |-> typeTable,
        categories |-> categoryTable, transactions |-> rows]
  ELSE IF Cardinality({c \in DOMAIN categoryTable :
                         categoryTable[c].transactionTypeId = id}) > 0
  THEN [status |-> 400, code |-> "TYPE_IN_USE", types |-> typeTable,
        categories |-> categoryTable, transactions |-> rows]
  ELSE [status |-> 200, code |-> "OK"] @@ DeleteTypeRow(typeTable, categoryTable, rows, id)

TypeIdPool == {TypeIdOf(k) : k \in 1..MaxTypes} \cup {ExpenseType}

\* POST /categories under a type of the caller's or under a default one.
PostCategoryOfType ==
  \E userId \in Creators, name \in CategoryNames, transactionTypeId \in TypeIdPool :
    LET a == PostCategoryOutcome(categories, userId, name, transactionTypeId) IN
    /\ Cardinality(DOMAIN a.categories \ DOMAIN SeedCategories) <= MaxCategories
    /\ categories' = a.categories
    /\ UNCHANGED <<sources, transactions, types, nextSource, nextTx, res,
                   inflight, committed>>

DeleteType ==
  \E userId \in Users, id \in TypeIdPool :
    LET a == DeleteTypeOutcome(types, categories, transactions, userId, id) IN
    /\ types' = a.types
    /\ categories' = a.categories
    /\ transactions' = a.transactions
    /\ res' = [req |-> Request("DELETE /transaction-types", userId, id, <<>>, 0),
               removed |-> <<>>, status |-> a.status, code |-> a.code]
    /\ UNCHANGED <<sources, nextSource, nextTx, inflight, committed>>

NextTypeUse ==
  \/ PostType
  \/ PostCategoryOfType
  \/ DeleteType
  \/ PostTyped

SpecTypeUse == Init /\ [][NextTypeUse]_vars

\* C32: DELETE /transaction-types/:id by the owner of a type that a category
\* names is answered TYPE_IN_USE and deletes nothing: types, categories and
\* rows stay as they were.
C32_TypeInUseKept ==
  \A id \in DOMAIN types :
    (/\ types[id].userId # NULL
     /\ \E c \in DOMAIN categories : categories[c].transactionTypeId = id) =>
       LET a == DeleteTypeOutcome(types, categories, transactions, types[id].userId, id) IN
       /\ a.code = "TYPE_IN_USE"
       /\ a.types = types
       /\ a.categories = categories
       /\ a.transactions = transactions

\* the owner's DELETE of a type that a category names was just refused
C32_Witness ==
  /\ res.req.op = "DELETE /transaction-types" /\ res.code = "TYPE_IN_USE"
  /\ res.req.id \in DOMAIN types
  /\ types[res.req.id].userId = res.req.userId
  /\ \E c \in DOMAIN categories : categories[c].transactionTypeId = res.req.id

\* ------------------------------------------------------------ a new source

RECURSIVE SumBalances(_, _)
SumBalances(table, ids) ==
  IF ids = {} THEN 0
  ELSE LET s == CHOOSE x \in ids : TRUE IN table[s].balance + SumBalances(table, ids \ {s})

\* the sum of the balances of all sources of db
TotalBalance(db) == SumBalances(db.sources, DOMAIN db.sources)

\* C34: an accepted POST of a transfer or saving body, an accepted PUT of such
\* a body on a stored transfer or saving row, and an accepted DELETE of such a
\* row leave the sum of the balances of all sources as it was.
C34_TransfersConserve ==
  \A userId \in Creators :
    /\ \A b \in TransactionBody :
         IsTransferKind(b.typeId) =>
           /\ LET a == PostOutcome(Store, userId, b, 0) IN
              a.status = 201 => TotalBalance(a.db) = TotalBalance(Store)
           /\ \A id \in TxIds :
                (Owned(Store, id, userId) /\ IsTransferKind(transactions[id].typeId)) =>
                   LET a == PutOutcome(Store, userId, id, b, 0) IN
                   a.status = 200 => TotalBalance(a.db) = TotalBalance(Store)
    /\ \A id \in TxIds :
         (Owned(Store, id, userId) /\ IsTransferKind(transactions[id].typeId)) =>
            LET a == DeleteOutcome(Store, userId, id, 0) IN
            a.status = 200 => TotalBalance(a.db) = TotalBalance(Store)

\* db2 differs from db1 at most in the balances of the sources in `touched`
\* and in the row `id`.
Frame(db1, db2, touched, id) ==
  /\ DOMAIN db2.sources = DOMAIN db1.sources
  /\ \A s \in DOMAIN db1.sources :
        /\ db2.sources[s] = [db1.sources[s] EXCEPT !.balance = db2.sources[s].balance]
        /\ s \notin touched => db2.sources[s].balance = db1.sources[s].balance
  /\ DOMAIN db2.transactions \ {id} = DOMAIN db1.transactions \ {id}
  /\ \A i \in DOMAIN db1.transactions \ {id} : db2.transactions[i] = db1.transactions[i]

\* C35: a POST, PUT or DELETE of a transaction changes no balance but those
\* of the sourceId / targetSourceId of the stored row and of the request's
\* body, changes no other field of any source, and changes no row but the one
\* it addresses (for a POST, the one it inserts).
C35_MutationFrame ==
  \A userId \in Creators :
    /\ \A b \in LedgerBody :
         /\ Frame(Store, PostOutcome(Store, userId, b, 0).db,
                  {b.sourceId, b.targetSourceId}, nextTx)
         /\ \A id \in TxIds :
              Frame(Store, PutOutcome(Store, userId, id, b, 0).db,
                    {b.sourceId, b.targetSourceId}
                    \cup (IF id \in DOMAIN transactions
                          THEN {transactions[id].sourceId, transactions[id].targetSourceId}
                          ELSE {}),
                    id)
    /\ \A id \in TxIds :
         Frame(Store, DeleteOutcome(Store, userId, id, 0).db,
               IF id \in DOMAIN transactions
               THEN {transactions[id].sourceId, transactions[id].targetSourceId} ELSE {},
               id)

\* a second row was just created on s1 while a third source holds 1 and
\* another row is stored
C35_Witness ==
  /\ res.req.op = "POST /transactions" /\ res.status = 201 /\ res.req.id = 2
  /\ DOMAIN transactions = {1, 2}
  /\ "s3" \in DOMAIN sources /\ sources["s3"].balance = 1
  /\ "s3" \notin {res.req.body.sourceId, res.req.body.targetSourceId}

\* The body that carries the values of a stored row.
SameValues(row) ==
  Body(row.typeId, row.sourceId, row.targetSourceId, row.categoryId, row.amount)

\* C36: a PUT of a stored row with exactly its stored typeId, sourceId,
\* targetSourceId, categoryId and amount leaves the balance of every source as
\* it was.
C36_SameValuesNoEffect ==
  \A userId \in Creators, id \in DOMAIN transactions :
    Owned(Store, id, userId) =>
      LET a == PutOutcome(Store, userId, id, SameValues(transactions[id]), 0) IN
      /\ DOMAIN a.db.sources = DOMAIN sources
      /\ \A s \in DOMAIN sources : a.db.sources[s].balance = sources[s].balance

\* a stored transfer of 2 between two sources whose balances it moved, for
\* which the PUT of its own values is answered 200
C36_Witness ==
  \E id \in DOMAIN transactions :
    /\ transactions[id].typeId = TransferType /\ transactions[id].amount = 2
    /\ transactions[id].targetSourceId \in DOMAIN sources
    /\ sources[transactions[id].sourceId].balance = 0 - 2
    /\ PutOutcome(Store, transactions[id].userId, id, SameValues(transactions[id]), 0).status = 200

\* ------------------------------------------------------- reading the rows

\* GET /transactions, whole handler: the rows it returns. The filter is
\* `userId`, the date range and, when given, typeId (categoryId and sourceId
\* work alike); the date range and the pagination only narrow the answer and
\* are not modelled.
GetTransactionsOutcome(db, userId, typeId) ==
  [status |-> 200, code |-> "OK",
   rows |-> [i \in {j \in DOMAIN db.transactions :
                       /\ db.transactions[j].userId = userId
                       /\ Falsy(typeId) \/ db.transactions[j].typeId = typeId}
               |-> db.transactions[i]]]

\* A lookup of one row by its id alone.
GetTransactionById(db, userId, id) ==
  IF id \in DOMAIN db.transactions
  THEN [status |-> 200, code |-> "OK", rows |-> [i \in {id} |-> db.transactions[i]]]
  ELSE [status |-> 404, code |-> "NOT_FOUND", rows |-> <<>>]

\* GET /transactions/:id, whole handler: findFirst({ where: { id, userId } }).
GetTransactionOutcome(db, userId, id) ==
  IF id \in DOMAIN db.transactions /\ db.transactions[id].userId = userId
  THEN [status |-> 200, code |-> "OK", rows |-> [i \in {id} |-> db.transactions[i]]]
  ELSE [status |-> 404, code |-> "NOT_FOUND", rows |-> <<>>]

\* The answer of a read, kept in `res` with the rows it returned.
Read(req, a) ==
  res' = [req |-> req, removed |-> <<>>, status |-> a.status, code |-> a.code,
          rows |-> a.rows]

TypeFilters == {UNDEF, IncomeType}

GetTransactions ==
  \E userId \in Users, typeId \in TypeFilters :
    /\ Read(Request("GET /transactions", userId, 0, [typeId |-> typeId], 0),
            GetTransactionsOutcome(Store, userId, typeId))
    /\ UNCHANGED <<sources, transactions, types, categories, nextSource, nextTx,
                   inflight, committed>>

GetTransaction ==
  \E userId \in Users, id \in TxIds :
    /\ Read(Request("GET /transactions/:id", userId, id, <<>>, 0),
            GetTransactionOutcome(Store, userId, id))
    /\ UNCHANGED <<sources, transactions, types, categories, nextSource, nextTx,
                   inflight, committed>>

NextReads ==
  \/ PostShared
  \/ PutShared
  \/ DeleteShared
  \/ GetTransactions
  \/ GetTransaction

SpecReads == InitSharedStore /\ [][NextReads]_vars

\* C37: GET /transactions returns only rows whose userId is the caller's, and
\* all of them that pass the filter; GET /transactions/:id returns the row
\* when it is the caller's and answers 404 for a row of another user; a POST
\* stores its row under the caller's id, and no PUT changes the userId of a
\* row.
C37_ReadIsolation ==
  \A userId \in Users :
    /\ \A typeId \in TypeFilters :
         LET a == GetTransactionsOutcome(Store, userId, typeId) IN
         /\ \A i \in DOMAIN a.rows : a.rows[i] = transactions[i] /\ a.rows[i].userId = userId
         /\ \A i \in DOMAIN transactions :
              (transactions[i].userId # userId) => i \notin DOMAIN a.rows
    /\ \A id \in TxIds :
         LET a == GetTransactionOutcome(Store, userId, id) IN
         IF id \in DOMAIN transactions /\ transactions[id].userId = userId
         THEN a.status = 200 /\ a.rows = [i \in {id} |-> transactions[i]]
         ELSE a.status = 404 /\ a.rows = <<>>
    /\ \A b \in SharedBody :
         /\ LET a == PostOutcome(Store, userId, b, 0) IN
            a.status = 201 =>
              /\ nextTx \in DOMAIN a.db.transactions
              /\ a.db.transactions[nextTx].userId = userId
         /\ \A id \in TxIds :
              LET a == PutOutcome(Store, userId, id, b, 0) IN
              \A i \in DOMAIN transactions :
                 /\ i \in DOMAIN a.db.transactions
                 /\ a.db.transactions[i].userId = transactions[i].userId

\* a GET /transactions/:id of a stored row of the other user was just
\* answered 404, while both users hold rows
C37_Witness ==
  /\ res.req.op = "GET /transactions/:id" /\ res.status = 404
  /\ res.req.id \in DOMAIN transactions
  /\ transactions[res.req.id].userId # res.req.userId
  /\ \E i \in DOMAIN transactions : transactions[i].userId = res.req.userId

====
